---- MODULE Spec2Model ----
(***************************************************************************)
(* Resource-provider inventory and allocation accounting                   *)
(* (nova/objects/resource_provider.py).                                    *)
(*                                                                         *)
(* The state is the content of the four tables the objects write           *)
(* (resource_providers, inventories, allocations,                          *)
(* resource_provider_aggregates), the auto-increment counters of the       *)
(* three tables with a numeric key, the in-memory ResourceProvider objects *)
(* that carry an id, the save() calls that have read and not yet written,  *)
(* the create() calls that have not yet run their transaction, the writer  *)
(* transaction that is open, the last serialisation of an object, the      *)
(* object a caller has loaded, and the outcome of the last operation.      *)
(* Every public operation of the objects is one action; a body run inside  *)
(* `with main_context_manager.writer.using(context)` is computed on a copy *)
(* of the tables and committed only when no exception leaves the block.    *)
(***************************************************************************)
EXTENDS Integers, Sequences, FiniteSets, TLC

VARIABLES
    resource_providers,            \* rows of models.ResourceProvider
    inventories,                   \* rows of models.Inventory
    allocations,                   \* rows of models.Allocation
    resource_provider_aggregates,  \* rows of models.ResourceProviderAggregate
    next_id,                       \* auto-increment counters, one per table
    rp_objects,                    \* in-memory ResourceProvider objects with an id
    saving,                        \* save() calls between their reads and their transaction
    creating,                      \* create() calls between their checks and their transaction
    writing,                       \* the writer transaction that is open, with its working copy
    serialised,                    \* the last obj_to_primitive() call and its primitive
    loaded,                        \* the object a caller got from get_by_uuid(), with its changes
    last                           \* outcome of the last operation

vars == <<resource_providers, inventories, allocations,
          resource_provider_aggregates, next_id, rp_objects, saving, creating,
          writing, serialised, loaded, last>>

----------------------------------------------------------------------------
(* Bounds of the model *)

MaxRpId == 2
MaxInvId == 2
MaxAllocId == 1
MaxResources == 2
MaxAggregates == 2
MaxStaged == 2
MaxOverlap == 2

----------------------------------------------------------------------------
(* Values *)

None == "None"
Unset == "Unset"
NoId == 0

Uuids == {"u1", "u2"}
Names == {None, "n1"}
AggregateIds == {1}
Consumers == {"c1"}
UsedValues == {1}

\* allocation_ratio is a float; the model keeps it as a number of halves,
\* so 2 stands for 1.0 and 1 for 0.5
RatioDen == 2

\* nova.objects.fields.ResourceClass: the ordered enumeration of names;
\* the stored code of a name is its position, counted from 0
ResourceClassALL == <<"VCPU", "MEMORY_MB", "DISK_GB">>

index(name) ==
    (CHOOSE i \in 1..Len(ResourceClassALL) : ResourceClassALL[i] = name) - 1

from_index(i) == ResourceClassALL[i + 1]

\* the classes the operations are called with
ResourceClasses == {"MEMORY_MB", "DISK_GB"}

\* capacity parameters of the descriptors the operations are called with:
\* effective capacity (1 - 0) * 1.0 = 1 and (2 - 1) * 0.5 = 1/2
WholeUnit ==
    [total |-> 1, reserved |-> 0, min_unit |-> 1, max_unit |-> 1,
     step_size |-> 1, allocation_ratio |-> 2]

HalfUnit ==
    [total |-> 2, reserved |-> 1, min_unit |-> 1, max_unit |-> 1,
     step_size |-> 1, allocation_ratio |-> 1]

Capacities == {WholeUnit, HalfUnit}

CapacityFields ==
    {"total", "reserved", "min_unit", "max_unit", "step_size",
     "allocation_ratio"}

\* a ResourceUse as a caller stages it: a class and capacity parameters
Descriptor(c, cap) ==
    [resource_class |-> c, total |-> cap.total, reserved |-> cap.reserved,
     min_unit |-> cap.min_unit, max_unit |-> cap.max_unit,
     step_size |-> cap.step_size, allocation_ratio |-> cap.allocation_ratio]

Descriptors == { Descriptor(c, cap) : c \in ResourceClasses, cap \in Capacities }

SeqsUpTo(S, n) == UNION { [1..k -> S] : k \in 0..n }

ResourceLists == SeqsUpTo(Descriptors, MaxResources)

\* the resources staged on an object that create() is called on
StagedResourceLists ==
    SeqsUpTo({ Descriptor(c, WholeUnit) : c \in ResourceClasses }, MaxResources)
AggregateLists == SeqsUpTo(AggregateIds, MaxAggregates)

\* the changed fields of inventory objects Inventory.save() is called with
InventoryUpdates ==
    { [f \in {"total", "reserved", "allocation_ratio"} |-> HalfUnit[f]] }

Range(s) == { s[i] : i \in DOMAIN s }

----------------------------------------------------------------------------
(* The tables as one value, for the code that runs inside a transaction *)

DB ==
    [rp |-> resource_providers, inv |-> inventories, alloc |-> allocations,
     rpa |-> resource_provider_aggregates, next |-> next_id]

\* the result of a step inside a transaction: the tables after it and the
\* exception it raised (None when it returned), with what the exception
\* names: a resource class, or the column of a duplicate entry
Ok(d) == [db |-> d, err |-> None, what |-> None]
Raise(d, e, w) == [db |-> d, err |-> e, what |-> w]

RECURSIVE SumUsed(_)
SumUsed(rows) ==
    IF rows = {} THEN 0
    ELSE LET r == CHOOSE x \in rows : TRUE
         IN r.used + SumUsed(rows \ {r})

----------------------------------------------------------------------------
(* Storage functions *)

\* resource_providers without the unique uuid
_create_rp_in_db_unconstrained(d, uuid, name) ==
    Ok([d EXCEPT
           !.rp = @ \cup {[id |-> d.next.rp, uuid |-> uuid, name |-> name]},
           !.next.rp = @ + 1])

\* resource_providers has a unique constraint on uuid: a second row with
\* the same uuid is a DBDuplicateEntry on that column
_create_rp_in_db(d, uuid, name) ==
    IF \E p \in d.rp : p.uuid = uuid
    THEN Raise(d, "DBDuplicateEntry", "uuid")
    ELSE Ok([d EXCEPT
                !.rp = @ \cup {[id |-> d.next.rp, uuid |-> uuid, name |-> name]},
                !.next.rp = @ + 1])

\* the query without its filter on uuid
_get_rp_unfiltered_from_db(d, uuid) == d.rp

\* the rows with this uuid: first() of the query, NotFound when there is none
_get_rp_by_uuid_from_db(d, uuid) == { p \in d.rp : p.uuid = uuid }

\* inventories without the unique pair
InventoryPairUnconstrained(d, rp_id, rc_id) == TRUE

\* (resource_provider_id, resource_class_id) is a unique pair of inventories
\* (the table definition is not part of this module's sources)
InventoryPairFree(d, rp_id, rc_id) ==
    ~ \E i \in d.inv : i.resource_provider_id = rp_id
                       /\ i.resource_class_id = rc_id

_create_inventory_in_db(d, rp_id, rc_id, cap) ==
    IF ~ InventoryPairFree(d, rp_id, rc_id)
    THEN Raise(d, "DBDuplicateEntry", "resource_class_id")
    ELSE Ok([d EXCEPT
                !.inv = @ \cup
                    {[id |-> d.next.inv, resource_provider_id |-> rp_id,
                      resource_class_id |-> rc_id, total |-> cap.total,
                      reserved |-> cap.reserved, min_unit |-> cap.min_unit,
                      max_unit |-> cap.max_unit, step_size |-> cap.step_size,
                      allocation_ratio |-> cap.allocation_ratio]},
                !.next.inv = @ + 1])

\* the row with the updated fields replaced, the other fields kept
UpdatedRow(row, updates) ==
    [f \in DOMAIN row |-> IF f \in DOMAIN updates THEN updates[f] ELSE row[f]]

_update_inventory_in_db(d, id_, updates) ==
    IF ~ \E i \in d.inv : i.id = id_
    THEN Raise(d, "NotFound", None)
    ELSE Ok([d EXCEPT !.inv = { IF i.id = id_ THEN UpdatedRow(i, updates) ELSE i
                                : i \in @ }])

\* the delete that takes the allocation rows of the row's provider with it
Inventory_destroy_in_db_with_allocations(d, id) ==
    IF ~ \E i \in d.inv : i.id = id
    THEN Raise(d, "NotFound", None)
    ELSE Ok([d EXCEPT
                !.inv = { i \in @ : i.id # id },
                !.alloc = { a \in @ :
                              \A i \in d.inv :
                                 i.id = id
                                 => a.resource_provider_id
                                      # i.resource_provider_id }])

Inventory_destroy_in_db(d, id) ==
    IF ~ \E i \in d.inv : i.id = id
    THEN Raise(d, "NotFound", None)
    ELSE Ok([d EXCEPT !.inv = { i \in @ : i.id # id }])

Allocation_create_in_db(d, rp_id, rc_id, consumer_id, used) ==
    Ok([d EXCEPT
           !.alloc = @ \cup
               {[id |-> d.next.alloc, resource_provider_id |-> rp_id,
                 resource_class_id |-> rc_id, consumer_id |-> consumer_id,
                 used |-> used]},
           !.next.alloc = @ + 1])

Allocation_destroy(d, id) ==
    IF ~ \E a \in d.alloc : a.id = id
    THEN Raise(d, "NotFound", None)
    ELSE Ok([d EXCEPT !.alloc = { a \in @ : a.id # id }])

\* the filter on the provider alone
_get_allocations_of_any_class(d, rp_id, rc_id) ==
    { a \in d.alloc : a.resource_provider_id = rp_id }

_get_allocations_from_db(d, rp_id, rc_id) ==
    { a \in d.alloc : a.resource_provider_id = rp_id
                      /\ a.resource_class_id = rc_id }

\* AllocationList.get_allocations: the class is looked up by its code
get_allocations(d, rp_id, resource_class) ==
    _get_allocations_from_db(d, rp_id, index(resource_class))

\* the usage query with the outer join on the provider alone
_get_resource_data_joined_on_provider(d, rp_id) ==
    { [resource_class |-> from_index(i.resource_class_id),
       total |-> i.total, reserved |-> i.reserved,
       allocation_ratio |-> i.allocation_ratio, min_unit |-> i.min_unit,
       max_unit |-> i.max_unit, step_size |-> i.step_size,
       used |-> SumUsed({ a \in d.alloc :
                            a.resource_provider_id = i.resource_provider_id })]
      : i \in { j \in d.inv : j.resource_provider_id = rp_id } }

\* Inventory outer-joined with Allocation on provider and class, grouped by
\* class: one ResourceUse per inventory row of the provider, used being the
\* sum over the matching allocations, 0 when there is none
_get_resource_data(d, rp_id) ==
    { [resource_class |-> from_index(i.resource_class_id),
       total |-> i.total, reserved |-> i.reserved,
       allocation_ratio |-> i.allocation_ratio, min_unit |-> i.min_unit,
       max_unit |-> i.max_unit, step_size |-> i.step_size,
       used |-> SumUsed(_get_allocations_from_db(d, i.resource_provider_id,
                                                 i.resource_class_id))]
      : i \in { j \in d.inv : j.resource_provider_id = rp_id } }

\* The query selects from inventories (eagerly loading each row's own
\* provider) and filters on resource_providers.uuid, with no condition
\* relating the two tables: every inventory row qualifies as soon as some
\* provider has the uuid
_get_all_by_resource_provider(d, rp_uuid) ==
    IF \E p \in d.rp : p.uuid = rp_uuid THEN d.inv ELSE {}

\* obj_make_list over the rows: _from_db_object builds each row's provider
\* from the eagerly loaded row, which is missing when no provider row has
\* the inventory's resource_provider_id
get_all_by_resource_provider_uuid(d, rp_uuid) ==
    LET rows == _get_all_by_resource_provider(d, rp_uuid)
    IN IF \E i \in rows : ~ \E p \in d.rp : p.id = i.resource_provider_id
       THEN [err |-> "InternalError", objects |-> {}]
       ELSE [err |-> None, objects |-> rows]

\* the inserts under a constraint that makes aggregate_id unique by itself
RECURSIVE _update_aggregates_unique_aggregate(_, _, _)
_update_aggregates_unique_aggregate(d, rp_id, aggregates) ==
    IF aggregates = <<>> THEN Ok(d)
    ELSE LET row == [resource_provider_id |-> rp_id,
                     aggregate_id |-> Head(aggregates)]
         IN IF \E r \in d.rpa : r.aggregate_id = row.aggregate_id
            THEN Raise(d, "DBDuplicateEntry", "aggregate_id")
            ELSE _update_aggregates_unique_aggregate(
                     [d EXCEPT !.rpa = @ \cup {row}], rp_id, Tail(aggregates))

\* one insert per listed aggregate, then a flush: the pair
\* (resource_provider_id, aggregate_id) is unique
RECURSIVE _update_aggregates(_, _, _)
_update_aggregates(d, rp_id, aggregates) ==
    IF aggregates = <<>> THEN Ok(d)
    ELSE LET row == [resource_provider_id |-> rp_id,
                     aggregate_id |-> Head(aggregates)]
         IN IF row \in d.rpa
            THEN Raise(d, "DBDuplicateEntry", "aggregate_id")
            ELSE _update_aggregates([d EXCEPT !.rpa = @ \cup {row}], rp_id,
                                    Tail(aggregates))

_drop_all_aggregates(d, rp_id) ==
    [d EXCEPT !.rpa = { r \in @ : r.resource_provider_id # rp_id }]

_get_aggregates(d, rp_id) ==
    { r.aggregate_id : r \in { x \in d.rpa : x.resource_provider_id = rp_id } }

----------------------------------------------------------------------------
(* Inventory and Allocation objects, as called inside a transaction *)

NoProvider == -1

\* _make_db that looks at the resource class before the provider
_make_db_class_first(d, rp_id, resource_class) ==
    IF resource_class = Unset
    THEN Raise(d, "MissingResourceClass", None)
    ELSE IF rp_id = NoProvider \/ rp_id = NoId
    THEN Raise(d, "MissingProvider", None)
    ELSE Ok(d)

\* _make_db: the provider must be set and carry an id, the class must be set
_make_db(d, rp_id, resource_class) ==
    IF rp_id = NoProvider \/ rp_id = NoId
    THEN Raise(d, "MissingProvider", None)
    ELSE IF resource_class = Unset
    THEN Raise(d, "MissingResourceClass", None)
    ELSE Ok(d)

Inventory_create(d, obj_id, rp_id, resource_class, cap) ==
    IF obj_id # NoId THEN Raise(d, "AlreadyCreated", None)
    ELSE IF _make_db(d, rp_id, resource_class).err # None
    THEN _make_db(d, rp_id, resource_class)
    ELSE _create_inventory_in_db(d, rp_id, index(resource_class), cap)

Inventory_save(d, obj_id, updates) ==
    IF obj_id = NoId THEN Raise(d, "NotCreated", None)
    ELSE _update_inventory_in_db(d, obj_id, updates)

Inventory_destroy(d, obj_id) ==
    IF obj_id = NoId THEN Raise(d, "NotImplementedError", None)
    ELSE Inventory_destroy_in_db(d, obj_id)

Allocation_create(d, obj_id, rp_id, resource_class, consumer_id, used) ==
    IF obj_id # NoId THEN Raise(d, "AlreadyCreated", None)
    ELSE IF _make_db(d, rp_id, resource_class).err # None
    THEN _make_db(d, rp_id, resource_class)
    ELSE Allocation_create_in_db(d, rp_id, index(resource_class),
                                 consumer_id, used)

----------------------------------------------------------------------------
(* Reconciliation: ResourceProvider._update_resources *)

\* the comparison that also refuses a usage equal to the desired capacity
CapacityMismatchOrEqual(used, resource) ==
    used * RatioDen
        >= (resource.total - resource.reserved) * resource.allocation_ratio

\* current usage against the desired effective capacity
\* (total - reserved) * allocation_ratio
CapacityMismatch(used, resource) ==
    used * RatioDen
        > (resource.total - resource.reserved) * resource.allocation_ratio

\* the fields copied from a descriptor to the inventory object
CopiedFields(resource) == [f \in CapacityFields |-> resource[f]]

Without(f, k) == [x \in DOMAIN f \ {k} |-> f[x]]

\* the second loop: the classes left in existing_resources, in the order
\* the dictionary yields them
RECURSIVE DropRemaining(_, _, _, _)
DropRemaining(d, order, existing_resources, existing_inventories) ==
    IF order = <<>> THEN Ok(d)
    ELSE LET c == Head(order)
         IN IF existing_resources[c].used > 0
            THEN Raise(d, "CapacityConflict", c)
            ELSE IF c \notin DOMAIN existing_inventories
            THEN Raise(d, "KeyError", c)
            ELSE LET res == Inventory_destroy(d, existing_inventories[c])
                 IN IF res.err # None THEN res
                    ELSE DropRemaining(res.db, Tail(order), existing_resources,
                                       existing_inventories)

\* existing_resources: class -> ResourceUse with the usage read before the
\* transaction; existing_inventories: class -> id of the loaded Inventory
\* object; order: the order in which the second loop visits what is left
RECURSIVE _update_resources(_, _, _, _, _, _)
_update_resources(d, rp_id, resources, existing_resources, existing_inventories, order) ==
    IF resources = <<>>
    THEN DropRemaining(d, SelectSeq(order,
                                    LAMBDA c : c \in DOMAIN existing_resources),
                       existing_resources, existing_inventories)
    ELSE
      LET resource == Head(resources)
          c == resource.resource_class
      IN IF c \in DOMAIN existing_resources
         THEN IF CapacityMismatch(existing_resources[c].used, resource)
              THEN Raise(d, "CapacityConflict", c)
              ELSE LET obj_id == IF c \in DOMAIN existing_inventories
                                 THEN existing_inventories[c] ELSE NoId
                       saved == Inventory_save(d, obj_id,
                                               CopiedFields(resource))
                       res == IF saved.err = "NotCreated"
                              THEN Inventory_create(d, NoId, rp_id, c,
                                                    CopiedFields(resource))
                              ELSE saved
                   IN IF res.err # None THEN res
                      ELSE _update_resources(res.db, rp_id, Tail(resources),
                                             Without(existing_resources, c),
                                             existing_inventories, order)
         ELSE LET res == Inventory_create(d, NoId, rp_id, c,
                                          CopiedFields(resource))
              IN IF res.err # None THEN res
                 ELSE _update_resources(res.db, rp_id, Tail(resources),
                                        existing_resources,
                                        existing_inventories, order)

----------------------------------------------------------------------------
(* ResourceProvider *)

\* a dictionary keyed by resource class over a set of records that have one
AsDict(records) ==
    [c \in { r.resource_class : r \in records } |->
        CHOOSE r \in records : r.resource_class = c]

\* create() without the check that the object carries no id
create_without_id_check(d, obj_id, uuid, name, changed, aggregates, resources) ==
    IF uuid = Unset THEN Raise(d, "MissingIdentifier", None)
    ELSE
      LET id == d.next.rp
          c1 == _create_rp_in_db(d, uuid, name)
          c2 == IF c1.err = None /\ "aggregates" \in changed
                THEN _update_aggregates(c1.db, id, aggregates) ELSE c1
          c3 == IF c2.err = None /\ "resources" \in changed
                THEN _update_resources(c2.db, id, resources, <<>>, <<>>, <<>>)
                ELSE c2
      IN IF c3.err = "DBDuplicateEntry"
         THEN Raise(c3.db,
                    IF c3.what = "aggregate_id" THEN "DuplicateAssociation"
                    ELSE "DuplicateProvider", None)
         ELSE c3

\* create() that leaves the staged resources aside
create_without_staged_resources(d, obj_id, uuid, name, changed, aggregates, resources) ==
    IF obj_id # NoId THEN Raise(d, "AlreadyCreated", None)
    ELSE IF uuid = Unset THEN Raise(d, "MissingIdentifier", None)
    ELSE
      LET id == d.next.rp
          c1 == _create_rp_in_db(d, uuid, name)
          c2 == IF c1.err = None /\ "aggregates" \in changed
                THEN _update_aggregates(c1.db, id, aggregates) ELSE c1
      IN IF c2.err = "DBDuplicateEntry"
         THEN Raise(c2.db,
                    IF c2.what = "aggregate_id" THEN "DuplicateAssociation"
                    ELSE "DuplicateProvider", None)
         ELSE c2

\* the body of create(): the two precondition checks, then, in one writer
\* transaction, the provider row, the staged aggregates and the staged
\* resources; a DBDuplicateEntry is reported by the columns it names
ResourceProvider_create(d, obj_id, uuid, name, changed, aggregates, resources) ==
    IF obj_id # NoId THEN Raise(d, "AlreadyCreated", None)
    ELSE IF uuid = Unset THEN Raise(d, "MissingIdentifier", None)
    ELSE
      LET id == d.next.rp
          c1 == _create_rp_in_db(d, uuid, name)
          c2 == IF c1.err = None /\ "aggregates" \in changed
                THEN _update_aggregates(c1.db, id, aggregates) ELSE c1
          c3 == IF c2.err = None /\ "resources" \in changed
                THEN _update_resources(c2.db, id, resources, <<>>, <<>>, <<>>)
                ELSE c2
      IN IF c3.err = "DBDuplicateEntry"
         THEN Raise(c3.db,
                    IF c3.what = "aggregate_id" THEN "DuplicateAssociation"
                    ELSE "DuplicateProvider", None)
         ELSE c3

\* ResourceProvider._update_in_db is a plain function of the class body
\* taking (context, id_, updates); called as self._update_in_db(context,
\* id, updates) it receives self as a fourth argument and raises
ResourceProvider_update_in_db(d, id_, updates) ==
    Raise(d, "InternalError", None)

\* what save() reads before it opens its transaction, when resources changed
ExistingResources(d, uuid) ==
    LET rows == _get_rp_by_uuid_from_db(d, uuid)
    IN IF rows = {} THEN [err |-> "NotFound", resources |-> <<>>]
       ELSE [err |-> None,
             resources |->
                 AsDict(_get_resource_data(d, (CHOOSE p \in rows : TRUE).id))]

\* the dictionaries {inv.resource_class: inv} the listing can give: for a
\* class that several listed rows have, the row listed last stays, and the
\* order of the listing is the storage's
ExistingInventories(d, uuid) ==
    LET listing == get_all_by_resource_provider_uuid(d, uuid)
        classes == { from_index(i.resource_class_id) : i \in listing.objects }
    IN { f \in [classes -> { i.id : i \in listing.objects }] :
           \A c \in classes :
              \E i \in listing.objects :
                 i.id = f[c] /\ from_index(i.resource_class_id) = c }

\* the writer transaction of save() without the drop of the associations
save_transaction_without_drop(d, obj, changed, name, aggregates, resources, existing_resources, existing_inventories, order) ==
    LET s1 == IF "name" \in changed
              THEN ResourceProvider_update_in_db(d, obj.id, name) ELSE Ok(d)
        s2 == IF s1.err = None /\ "aggregates" \in changed
              THEN LET r == _update_aggregates(s1.db, obj.id, aggregates)
                   IN IF r.err = "DBDuplicateEntry"
                      THEN Raise(r.db, "DuplicateAssociation", None) ELSE r
              ELSE s1
    IN IF s2.err = None /\ "resources" \in changed
       THEN _update_resources(s2.db, obj.id, resources, existing_resources,
                              existing_inventories, order)
       ELSE s2

\* the writer transaction of save()
save_transaction(d, obj, changed, name, aggregates, resources, existing_resources, existing_inventories, order) ==
    LET s1 == IF "name" \in changed
              THEN ResourceProvider_update_in_db(d, obj.id, name) ELSE Ok(d)
        s2 == IF s1.err = None /\ "aggregates" \in changed
              THEN LET r == _update_aggregates(
                                _drop_all_aggregates(s1.db, obj.id), obj.id,
                                aggregates)
                   IN IF r.err = "DBDuplicateEntry"
                      THEN Raise(r.db, "DuplicateAssociation", None) ELSE r
              ELSE s1
    IN IF s2.err = None /\ "resources" \in changed
       THEN _update_resources(s2.db, obj.id, resources, existing_resources,
                              existing_inventories, order)
       ELSE s2

ResourceProvider_save(d, obj, changed, name, aggregates, resources, existing_inventories, order) ==
    IF "resources" \notin changed
    THEN save_transaction(d, obj, changed, name, aggregates, resources,
                          <<>>, <<>>, <<>>)
    ELSE IF ExistingResources(d, obj.uuid).err # None
    THEN Raise(d, ExistingResources(d, obj.uuid).err, None)
    ELSE IF get_all_by_resource_provider_uuid(d, obj.uuid).err # None
    THEN Raise(d, get_all_by_resource_provider_uuid(d, obj.uuid).err, None)
    ELSE save_transaction(d, obj, changed, name, aggregates, resources,
                          ExistingResources(d, obj.uuid).resources,
                          existing_inventories, order)

\* _destroy() without the usage check
destroy_without_usage_check(d, id) ==
    IF id = NoId THEN Raise(d, "UnableToLoad", None)
    ELSE IF ~ \E p \in d.rp : p.id = id
    THEN Raise(d, "NotFound", None)
    ELSE Ok([d EXCEPT
                !.rp = { p \in @ : p.id # id },
                !.rpa = { r \in @ : r.resource_provider_id # id },
                !.inv = { i \in @ : i.resource_provider_id # id }])

\* _destroy() that deletes the provider row and leaves its inventory rows
destroy_without_inventories(d, id) ==
    IF id = NoId THEN Raise(d, "UnableToLoad", None)
    ELSE IF \E resource \in _get_resource_data(d, id) : resource.used > 0
    THEN Raise(d, "InUse", None)
    ELSE IF ~ \E p \in d.rp : p.id = id
    THEN Raise(d, "NotFound", None)
    ELSE Ok([d EXCEPT
                !.rp = { p \in @ : p.id # id },
                !.rpa = { r \in @ : r.resource_provider_id # id }])

\* _destroy(): usage is read inside the transaction; then the provider row,
\* its aggregate associations and its inventory rows are deleted
ResourceProvider_destroy(d, id) ==
    IF id = NoId THEN Raise(d, "UnableToLoad", None)
    ELSE IF \E resource \in _get_resource_data(d, id) : resource.used > 0
    THEN Raise(d, "InUse", None)
    ELSE IF ~ \E p \in d.rp : p.id = id
    THEN Raise(d, "NotFound", None)
    ELSE Ok([d EXCEPT
                !.rp = { p \in @ : p.id # id },
                !.rpa = { r \in @ : r.resource_provider_id # id },
                !.inv = { i \in @ : i.resource_provider_id # id }])

get_by_uuid(d, uuid) ==
    IF _get_rp_by_uuid_from_db(d, uuid) = {}
    THEN [err |-> "NotFound", ret |-> {}]
    ELSE [err |-> None, ret |-> _get_rp_by_uuid_from_db(d, uuid)]

\* ResourceProviderList._get_all_from_db: resource_providers outer-joined
\* with compute_nodes (on a condition that is never true) and with the
\* associations, then inner-joined with aggregates on the association's
\* aggregate_id, grouped by the association's resource_provider_id.  The
\* inner join leaves the providers that have an association; the grouping
\* leaves one joined row for each of them, with one of its aggregates, which
\* one being the storage's choice.  The result is the set of lists the
\* query can give, a list being a set of entries (one for each row kept)
_get_all_from_db(d) ==
    LET joined == { p \in d.rp : _get_aggregates(d, p.id) # {} }
        kept == { f \in [joined -> AggregateIds] :
                    \A p \in joined : f[p] \in _get_aggregates(d, p.id) }
    IN { { [id |-> p.id, uuid |-> p.uuid, name |-> p.name,
            aggregates |-> {f[p]}] : p \in joined } : f \in kept }

\* ResourceProviderList.get_all: one object for each entry
get_all(d) == _get_all_from_db(d)

----------------------------------------------------------------------------
(* Transactions: commit when the body returned, roll back when it raised.  *)
(* The id of a provider row stays on the object that create() was called   *)
(* on, so the counter of resource_providers does not hand it out again;    *)
(* the ids of rolled-back inventory rows are held by no object.            *)

\* a transaction that keeps what its body wrote before it raised
Transaction_without_rollback(d, res) == res.db

Transaction(d, res) ==
    IF res.err = None THEN res.db ELSE [d EXCEPT !.next.rp = res.db.next.rp]

WithinBounds(d) ==
    /\ d.next.rp <= MaxRpId + 1
    /\ d.next.inv <= MaxInvId + 1
    /\ d.next.alloc <= MaxAllocId + 1

Store(d) ==
    /\ resource_providers' = d.rp
    /\ inventories' = d.inv
    /\ allocations' = d.alloc
    /\ resource_provider_aggregates' = d.rpa
    /\ next_id' = d.next

\* no call is outstanding: the caller has taken the outcome of its last call
Idle == [op |-> "none", err |-> None, what |-> None, id |-> NoId]

Outcome(op, res, id) ==
    [op |-> op, err |-> res.err, what |-> res.what, id |-> id]

Permutations_of(S) ==
    { s \in [1..Cardinality(S) -> S] : \A c \in S : \E i \in DOMAIN s : s[i] = c }

----------------------------------------------------------------------------
(* Initial state and operations *)

Init ==
    /\ resource_providers = {}
    /\ inventories = {}
    /\ allocations = {}
    /\ resource_provider_aggregates = {}
    /\ next_id = [rp |-> 1, inv |-> 1, alloc |-> 1]
    /\ rp_objects = {}
    /\ saving = {}
    /\ creating = {}
    /\ writing = {}
    /\ serialised = {}
    /\ loaded = {}
    /\ last = Idle

\* ResourceProvider.create() on an object with these fields set; the object
\* carries the id from the moment the provider row is inserted
create(obj_id, uuid, name, changed, aggregates, resources) ==
    LET res == ResourceProvider_create(DB, obj_id, uuid, name, changed,
                                       aggregates, resources)
        inserted == res.db.next.rp > next_id.rp
    IN /\ last = Idle
       /\ WithinBounds(res.db)
       /\ Store(Transaction(DB, res))
       /\ rp_objects' = IF inserted
                        THEN rp_objects \cup {[id |-> next_id.rp, uuid |-> uuid]}
                        ELSE rp_objects
       /\ last' = Outcome("rp_create", res,
                          IF inserted THEN next_id.rp ELSE obj_id)

\* the fields set on a new object that stages these lists
Staged(aggregates, resources) ==
    {f \in {"aggregates"} : aggregates # <<>>}
        \cup {f \in {"resources"} : resources # <<>>}

CreateProvider ==
  /\ last = Idle
  /\ UNCHANGED <<saving, creating, writing, serialised, loaded>>
  /\
    \/ \E obj_id \in 1..MaxRpId, uuid \in Uuids \cup {Unset} :
          create(obj_id, uuid, None, {}, <<>>, <<>>)
    \/ create(NoId, Unset, None, {}, <<>>, <<>>)
    \/ \E uuid \in Uuids, name \in Names,
          aggregates \in AggregateLists, resources \in StagedResourceLists :
          /\ Len(aggregates) + Len(resources) <= MaxStaged
          /\ create(NoId, uuid, name, Staged(aggregates, resources),
                    aggregates, resources)

\* ResourceProvider.save() on a loaded object whose changed fields are
\* `changed`, with the values given
save(obj, changed, name, aggregates, resources, existing_inventories, order) ==
    LET res == ResourceProvider_save(DB, obj, changed, name, aggregates,
                                     resources, existing_inventories, order)
    IN /\ last = Idle
       /\ WithinBounds(res.db)
       /\ Store(Transaction(DB, res))
       /\ UNCHANGED rp_objects
       /\ last' = Outcome("rp_save", res, obj.id)

\* the classes the second loop of _update_resources is left with
Dropped(d, uuid, resources) ==
    DOMAIN ExistingResources(d, uuid).resources
        \ { resources[i].resource_class : i \in DOMAIN resources }

SaveProvider ==
  /\ last = Idle
  /\ UNCHANGED <<saving, creating, writing, serialised, loaded>>
  /\ \E obj \in rp_objects :
      \/ save(obj, {}, None, <<>>, <<>>, <<>>, <<>>)
      \/ \E name \in Names : save(obj, {"name"}, name, <<>>, <<>>, <<>>, <<>>)
      \/ \E aggregates \in AggregateLists :
            save(obj, {"aggregates"}, None, aggregates, <<>>, <<>>, <<>>)
      \/ \E resources \in ResourceLists :
         \E existing_inventories \in ExistingInventories(DB, obj.uuid),
            order \in Permutations_of(Dropped(DB, obj.uuid, resources)) :
            save(obj, {"resources"}, None, <<>>, resources,
                 existing_inventories, order)
      \/ \E aggregates \in AggregateLists, resources \in ResourceLists :
            /\ Len(aggregates) + Len(resources) < MaxStaged
            /\ \E existing_inventories \in ExistingInventories(DB, obj.uuid),
                  order \in Permutations_of(Dropped(DB, obj.uuid, resources)) :
                  save(obj, {"aggregates", "resources"}, None, aggregates,
                       resources, existing_inventories, order)
      \/ \E aggregates \in AggregateLists :
            save(obj, {"name", "aggregates"}, None, aggregates, <<>>, <<>>,
                 <<>>)

destroy(id) ==
    LET res == ResourceProvider_destroy(DB, id)
    IN /\ last = Idle
       /\ Store(Transaction(DB, res))
       /\ UNCHANGED rp_objects
       /\ last' = Outcome("rp_destroy", res, id)

DestroyProvider ==
  /\ last = Idle
  /\ UNCHANGED <<saving, creating, writing, serialised, loaded>>
  /\ \E id \in {NoId} \cup 1..MaxRpId : destroy(id)

GetProvider ==
  /\ last = Idle
  /\ UNCHANGED <<saving, creating, writing, serialised, loaded>>
  /\ \E uuid \in Uuids :
      /\ UNCHANGED <<resource_providers, inventories, allocations,
                     resource_provider_aggregates, next_id, rp_objects>>
      /\ last' = [op |-> "get_by_uuid", err |-> get_by_uuid(DB, uuid).err,
                  what |-> uuid,
                  id |-> IF get_by_uuid(DB, uuid).err = None
                         THEN (CHOOSE p \in get_by_uuid(DB, uuid).ret : TRUE).id
                         ELSE NoId]

inventory_create(obj_id, rp_id, resource_class, cap) ==
    LET res == Inventory_create(DB, obj_id, rp_id, resource_class, cap)
    IN /\ last = Idle
       /\ WithinBounds(res.db)
       /\ Store(Transaction(DB, res))
       /\ UNCHANGED rp_objects
       /\ last' = Outcome("inv_create", res,
                          IF res.err = None THEN next_id.inv ELSE obj_id)

\* the provider of the object is not set (NoProvider), is an object
\* without an id (NoId), or is one of the provider objects that carry one
ProviderArguments == {NoProvider, NoId} \cup { o.id : o \in rp_objects }

CreateInventory ==
  /\ last = Idle
  /\ UNCHANGED <<saving, creating, writing, serialised, loaded>>
  /\
    \/ \E rp_id \in ProviderArguments,
          resource_class \in ResourceClasses \cup {Unset}, cap \in Capacities :
          inventory_create(NoId, rp_id, resource_class, cap)
    \/ \E cap \in Capacities :
          inventory_create(1, NoProvider, Unset, cap)

inventory_save(obj_id, updates) ==
    LET res == Inventory_save(DB, obj_id, updates)
    IN /\ last = Idle
       /\ Store(Transaction(DB, res))
       /\ UNCHANGED rp_objects
       /\ last' = Outcome("inv_save", res, obj_id)

SaveInventory ==
  /\ last = Idle
  /\ UNCHANGED <<saving, creating, writing, serialised, loaded>>
  /\ \E obj_id \in {NoId} \cup 1..MaxInvId, updates \in InventoryUpdates :
       inventory_save(obj_id, updates)

inventory_destroy(obj_id) ==
    LET res == Inventory_destroy(DB, obj_id)
    IN /\ last = Idle
       /\ Store(Transaction(DB, res))
       /\ UNCHANGED rp_objects
       /\ last' = Outcome("inv_destroy", res, obj_id)

DestroyInventory ==
  /\ last = Idle
  /\ UNCHANGED <<saving, creating, writing, serialised, loaded>>
  /\ \E obj_id \in {NoId} \cup 1..MaxInvId : inventory_destroy(obj_id)

allocation_create(obj_id, rp_id, resource_class, consumer_id, used) ==
    LET res == Allocation_create(DB, obj_id, rp_id, resource_class,
                                 consumer_id, used)
    IN /\ last = Idle
       /\ WithinBounds(res.db)
       /\ Store(Transaction(DB, res))
       /\ UNCHANGED rp_objects
       /\ last' = Outcome("alloc_create", res,
                          IF res.err = None THEN next_id.alloc ELSE obj_id)

CreateAllocation ==
  /\ last = Idle
  /\ UNCHANGED <<saving, creating, writing, serialised, loaded>>
  /\
    \/ \E rp_id \in ProviderArguments,
          resource_class \in ResourceClasses \cup {Unset},
          consumer_id \in Consumers, used \in UsedValues :
          allocation_create(NoId, rp_id, resource_class, consumer_id, used)
    \/ \E consumer_id \in Consumers, used \in UsedValues :
          allocation_create(1, NoProvider, Unset, consumer_id, used)

Allocation_destroy_obj(d, obj_id) ==
    IF obj_id = NoId THEN Raise(d, "NotImplementedError", None)
    ELSE Allocation_destroy(d, obj_id)

allocation_destroy(obj_id) ==
    LET res == Allocation_destroy_obj(DB, obj_id)
    IN /\ last = Idle
       /\ Store(Transaction(DB, res))
       /\ UNCHANGED rp_objects
       /\ last' = Outcome("alloc_destroy", res, obj_id)

DestroyAllocation ==
  /\ last = Idle
  /\ UNCHANGED <<saving, creating, writing, serialised, loaded>>
  /\ \E obj_id \in {NoId} \cup 1..MaxAllocId : allocation_destroy(obj_id)

\* ResourceProviderList.get_all()
GetAll ==
    /\ last = Idle
    /\ UNCHANGED <<saving, creating, writing, serialised, loaded>>
    /\ UNCHANGED <<resource_providers, inventories, allocations,
                   resource_provider_aggregates, next_id, rp_objects>>
    /\ last' = [op |-> "get_all", err |-> None, what |-> None, id |-> NoId]

\* InventoryList.get_all_by_resource_provider_uuid(uuid)
ListInventories ==
    /\ last = Idle
    /\ UNCHANGED <<saving, creating, writing, serialised, loaded>>
    /\ \E uuid \in Uuids :
        /\ UNCHANGED <<resource_providers, inventories, allocations,
                       resource_provider_aggregates, next_id, rp_objects>>
        /\ last' = [op |-> "inv_list",
                    err |-> get_all_by_resource_provider_uuid(DB, uuid).err,
                    what |-> uuid, id |-> NoId]

\* AllocationList.get_allocations(provider, resource_class) with a provider
\* object that carries an id
ListAllocations ==
    /\ last = Idle
    /\ UNCHANGED <<saving, creating, writing, serialised, loaded>>
    /\ \E rp_id \in 1..MaxRpId, resource_class \in ResourceClasses :
        /\ UNCHANGED <<resource_providers, inventories, allocations,
                       resource_provider_aggregates, next_id, rp_objects>>
        /\ last' = [op |-> "alloc_list", err |-> None,
                    what |-> resource_class, id |-> rp_id]

\* the caller takes the outcome; its next call can start
Return ==
    /\ last # Idle
    /\ last' = Idle
    /\ UNCHANGED <<saving, creating, writing, serialised, loaded>>
    /\ UNCHANGED <<resource_providers, inventories, allocations,
                   resource_provider_aggregates, next_id, rp_objects>>

Next ==
    \/ CreateProvider
    \/ SaveProvider
    \/ DestroyProvider
    \/ GetProvider
    \/ CreateInventory
    \/ SaveInventory
    \/ DestroyInventory
    \/ CreateAllocation
    \/ DestroyAllocation
    \/ GetAll
    \/ ListInventories
    \/ ListAllocations
    \/ Return

Spec == Init /\ [][Next]_vars

----------------------------------------------------------------------------
(* Overlapping saves.  save() reads the usage view and the inventory       *)
(* listing before it opens its writer transaction, so another call can     *)
(* commit between the reads and the transaction.  BeginSave is save() up   *)
(* to its transaction, CommitSave is its transaction, run on what was read. *)

\* the desired resource lists of the saves that overlap
OverlapResourceLists ==
    SeqsUpTo({ Descriptor(c, WholeUnit) : c \in ResourceClasses }, 1)

\* save() of a changed resource list up to its transaction: the usage view
\* and the inventory listing are read and kept for the transaction
begin_save(obj, resources) ==
    /\ last = Idle
    /\ Cardinality(saving) < MaxOverlap
    /\ UNCHANGED <<resource_providers, inventories, allocations,
                   resource_provider_aggregates, next_id, rp_objects>>
    /\ IF ExistingResources(DB, obj.uuid).err # None
       THEN /\ last' = [op |-> "rp_save",
                        err |-> ExistingResources(DB, obj.uuid).err,
                        what |-> None, id |-> obj.id]
            /\ UNCHANGED <<saving, creating, writing, serialised, loaded>>
       ELSE IF get_all_by_resource_provider_uuid(DB, obj.uuid).err # None
       THEN /\ last' = [op |-> "rp_save",
                        err |-> get_all_by_resource_provider_uuid(
                                    DB, obj.uuid).err,
                        what |-> None, id |-> obj.id]
            /\ UNCHANGED <<saving, creating, writing, serialised, loaded>>
       ELSE \E existing_inventories \in ExistingInventories(DB, obj.uuid),
               order \in Permutations_of(Dropped(DB, obj.uuid, resources)) :
               /\ saving' = saving \cup
                     {[obj |-> obj, resources |-> resources,
                       existing_resources |->
                           ExistingResources(DB, obj.uuid).resources,
                       existing_inventories |-> existing_inventories,
                       order |-> order]}
               /\ UNCHANGED <<creating, writing, serialised, loaded, last>>

BeginSave ==
    /\ last = Idle
    /\ \E obj \in rp_objects, resources \in OverlapResourceLists :
          begin_save(obj, resources)

commit_save(s) ==
    LET res == save_transaction(DB, s.obj, {"resources"}, None, <<>>,
                                s.resources, s.existing_resources,
                                s.existing_inventories, s.order)
    IN /\ last = Idle
       /\ WithinBounds(res.db)
       /\ Store(Transaction(DB, res))
       /\ UNCHANGED rp_objects
       /\ saving' = saving \ {s}
       /\ UNCHANGED <<creating, writing, serialised, loaded>>
       /\ last' = Outcome("rp_save", res, s.obj.id)

CommitSave == last = Idle /\ \E s \in saving : commit_save(s)

\* create() of providers that stage resources and nothing else
CreateProviderWithResources ==
    /\ last = Idle
    /\ UNCHANGED <<saving, creating, writing, serialised, loaded>>
    /\ \E uuid \in Uuids, resources \in StagedResourceLists :
          create(NoId, uuid, None, Staged(<<>>, resources), <<>>, resources)

NextOverlap ==
    \/ CreateProviderWithResources
    \/ CreateInventory
    \/ BeginSave
    \/ CommitSave
    \/ Return

SpecOverlap == Init /\ [][NextOverlap]_vars

----------------------------------------------------------------------------
(* A save of a resource set that overlaps Allocation.create and             *)
(* Allocation.destroy calls: the allocation calls are single statements in  *)
(* their own transactions and can commit between the reads of save() and    *)
(* its transaction.                                                         *)

\* the desired resource lists of the saves that overlap allocation calls
RaceResourceLists == SeqsUpTo(Descriptors, 1)

\* one save at a time is between its reads and its transaction
BeginSaveOfResources ==
    /\ saving = {}
    /\ \E obj \in rp_objects, resources \in RaceResourceLists :
          begin_save(obj, resources)

\* Allocation.create() against a provider object that carries an id
AllocateOnProvider ==
    /\ last = Idle
    /\ UNCHANGED <<saving, creating, writing, serialised, loaded>>
    /\ \E obj \in rp_objects, resource_class \in ResourceClasses,
          consumer_id \in Consumers, used \in UsedValues :
          allocation_create(NoId, obj.id, resource_class, consumer_id, used)

NextRace ==
    \/ CreateProviderWithResources
    \/ AllocateOnProvider
    \/ DestroyAllocation
    \/ BeginSaveOfResources
    \/ CommitSave
    \/ Return

SpecRace == Init /\ [][NextRace]_vars

----------------------------------------------------------------------------
(* A destroy that overlaps Allocation.create calls.  _destroy() reads the   *)
(* usage and deletes inside one writer transaction; Allocation.create is a  *)
(* single insert in a transaction of its own, which reads no provider row   *)
(* and can commit between the usage read of the destroy and its commit when *)
(* the storage lets transactions that write different tables run side by    *)
(* side.  BeginDestroyOfProvider is _destroy() up to its usage check,       *)
(* CommitDestroy its deletes and its commit.                                *)

\* the statements of _destroy() after the usage check
_destroy_after_usage_check(d, id) ==
    IF ~ \E p \in d.rp : p.id = id
    THEN Raise(d, "NotFound", None)
    ELSE Ok([d EXCEPT
                !.rp = { p \in @ : p.id # id },
                !.rpa = { r \in @ : r.resource_provider_id # id },
                !.inv = { i \in @ : i.resource_provider_id # id }])

BeginDestroyOfProvider ==
    /\ last = Idle
    /\ writing = {}
    /\ \E obj \in rp_objects :
          IF \E resource \in _get_resource_data(DB, obj.id) : resource.used > 0
          THEN /\ last' = Outcome("rp_destroy", Raise(DB, "InUse", None),
                                  obj.id)
               /\ UNCHANGED writing
          ELSE /\ writing' = {[op |-> "rp_destroy", id |-> obj.id,
                               before |-> DB, working |-> DB, steps |-> <<>>,
                               res |-> Ok(DB)]}
               /\ UNCHANGED last
    /\ UNCHANGED <<resource_providers, inventories, allocations,
                   resource_provider_aggregates, next_id, rp_objects, saving,
                   creating, serialised, loaded>>

CommitDestroy ==
    /\ last = Idle
    /\ \E w \in writing :
          LET res == _destroy_after_usage_check(DB, w.id)
          IN /\ Store(Transaction(DB, res))
             /\ writing' = {}
             /\ last' = Outcome("rp_destroy", res, w.id)
    /\ UNCHANGED <<rp_objects, saving, creating, serialised, loaded>>

NextDestroyRace ==
    \/ CreateProviderWithResources
    \/ AllocateOnProvider
    \/ DestroyAllocation
    \/ BeginDestroyOfProvider
    \/ CommitDestroy
    \/ Return

SpecDestroyRace == Init /\ [][NextDestroyRace]_vars

----------------------------------------------------------------------------
(* Overlapping creates.  create() checks the object (no id, a uuid), then   *)
(* runs one writer transaction; the unique uuid is decided by the storage   *)
(* when the transaction inserts the row.  BeginCreate is create() up to its *)
(* transaction, CommitCreate is its transaction; the transactions of the    *)
(* calls in flight run in any order.                                        *)

Callers == 1..MaxOverlap

\* the checks of create() on a new object of this caller
begin_create(caller, uuid, aggregates, resources) ==
    /\ last = Idle
    /\ ~ \E c \in creating : c.caller = caller
    /\ UNCHANGED <<resource_providers, inventories, allocations,
                   resource_provider_aggregates, next_id, rp_objects, saving,
                   writing, serialised, loaded>>
    /\ IF uuid = Unset
       THEN /\ last' = [op |-> "rp_create", err |-> "MissingIdentifier",
                        what |-> None, id |-> NoId]
            /\ UNCHANGED creating
       ELSE /\ creating' = creating \cup
                   {[caller |-> caller, uuid |-> uuid,
                     aggregates |-> aggregates, resources |-> resources]}
            /\ UNCHANGED last

BeginCreate ==
    /\ last = Idle
    /\ \E caller \in Callers, uuid \in Uuids \cup {Unset},
          aggregates \in AggregateLists, resources \in OverlapResourceLists :
          begin_create(caller, uuid, aggregates, resources)

\* the writer transaction of a create() in flight
commit_create(c) ==
    /\ create(NoId, c.uuid, None, Staged(c.aggregates, c.resources),
              c.aggregates, c.resources)
    /\ creating' = creating \ {c}
    /\ UNCHANGED <<saving, writing, serialised, loaded>>

CommitCreate == last = Idle /\ \E c \in creating : commit_create(c)

NextDuplicate ==
    \/ BeginCreate
    \/ CommitCreate
    \/ DestroyProvider
    \/ Return

SpecDuplicate == Init /\ [][NextDuplicate]_vars

----------------------------------------------------------------------------
(* A writer transaction statement by statement, with a reader beside it.    *)
(* The statements of save() and of _destroy() run inside one                *)
(* `with main_context_manager.writer.using(context)` block; the functions   *)
(* they call that are decorated as writers join the transaction that is     *)
(* open.  Each statement changes the working copy of the transaction; the   *)
(* tables change when the block is left.                                    *)

\* what a reader gets that reads the working copy of an open transaction
VisibleUncommitted(committed, working) == working

\* what another transaction reads while the block is open: what is committed
Visible(committed, working) == committed

\* the working copies after each statement of the transaction of a save()
\* of an aggregate list: the drop, then one insert for each entry
AggregateSteps(d, obj, aggregates) ==
    LET after(k) == save_transaction(d, obj, {"aggregates"}, None,
                                     SubSeq(aggregates, 1, k), <<>>, <<>>,
                                     <<>>, <<>>)
        steps == [n \in 1..(Len(aggregates) + 1) |-> after(n - 1)]
    IN [n \in 1..Len(SelectSeq(steps, LAMBDA r : r.err = None)) |->
           steps[n].db]

\* the working copies after each statement of the transaction of a save()
\* of a resource list: one save or create for each desired entry, then one
\* destroy for each class that is left
ResourceSteps(d, obj, resources, existing_resources, existing_inventories, order) ==
    LET first(k) == _update_resources(d, obj.id, SubSeq(resources, 1, k),
                                      existing_resources,
                                      existing_inventories, <<>>)
        second(j) == _update_resources(d, obj.id, resources,
                                       existing_resources,
                                       existing_inventories,
                                       SubSeq(order, 1, j))
        steps == [n \in 1..(Len(resources) + Len(order)) |->
                     IF n <= Len(resources) THEN first(n)
                     ELSE second(n - Len(resources))]
    IN [n \in 1..Len(SelectSeq(steps, LAMBDA r : r.err = None)) |->
           steps[n].db]

\* the working copies after each statement of _destroy(): the provider row
\* is deleted, then its associations, then its inventory rows
DestroySteps(d, id) ==
    IF ResourceProvider_destroy(d, id).err # None THEN <<>>
    ELSE LET d1 == [d EXCEPT !.rp = { p \in @ : p.id # id }]
             d2 == [d1 EXCEPT !.rpa = { r \in @ : r.resource_provider_id # id }]
             d3 == [d2 EXCEPT !.inv = { i \in @ : i.resource_provider_id # id }]
         IN <<d1, d2, d3>>

\* the block is entered: the statements to run, the working copy, and what
\* the block ends with
begin_write(op, id, steps, res) ==
    /\ last = Idle
    /\ writing = {}
    /\ WithinBounds(res.db)
    /\ writing' = {[op |-> op, id |-> id, before |-> DB, working |-> DB,
                    steps |-> steps, res |-> res]}
    /\ UNCHANGED <<resource_providers, inventories, allocations,
                   resource_provider_aggregates, next_id, rp_objects, saving,
                   creating, serialised, loaded, last>>

BeginSaveOfAggregates ==
    /\ last = Idle
    /\ \E obj \in rp_objects, aggregates \in AggregateLists :
          begin_write("rp_save", obj.id, AggregateSteps(DB, obj, aggregates),
                      save_transaction(DB, obj, {"aggregates"}, None,
                                       aggregates, <<>>, <<>>, <<>>, <<>>))

BeginSaveOfResourceSet ==
    /\ last = Idle
    /\ \E obj \in rp_objects, resources \in ResourceLists :
          /\ ExistingResources(DB, obj.uuid).err = None
          /\ get_all_by_resource_provider_uuid(DB, obj.uuid).err = None
          /\ \E existing_inventories \in ExistingInventories(DB, obj.uuid),
                order \in Permutations_of(Dropped(DB, obj.uuid, resources)) :
                begin_write("rp_save", obj.id,
                            ResourceSteps(DB, obj, resources,
                                ExistingResources(DB, obj.uuid).resources,
                                existing_inventories, order),
                            save_transaction(DB, obj, {"resources"}, None,
                                <<>>, resources,
                                ExistingResources(DB, obj.uuid).resources,
                                existing_inventories, order))

BeginDestroy ==
    /\ last = Idle
    /\ \E obj \in rp_objects :
          begin_write("rp_destroy", obj.id, DestroySteps(DB, obj.id),
                      ResourceProvider_destroy(DB, obj.id))

\* the next statement of the open transaction runs on its working copy
Statement ==
    \E w \in writing :
       /\ w.steps # <<>>
       /\ writing' = {[w EXCEPT !.working = Head(w.steps),
                                !.steps = Tail(w.steps)]}
       /\ UNCHANGED <<resource_providers, inventories, allocations,
                      resource_provider_aggregates, next_id, rp_objects,
                      saving, creating, serialised, loaded, last>>

\* the block is left: commit, or rollback when a statement raised
EndWrite ==
    /\ last = Idle
    /\ \E w \in writing :
          /\ w.steps = <<>>
          /\ Store(Transaction(DB, w.res))
          /\ writing' = {}
          /\ last' = Outcome(w.op, w.res, w.id)
          /\ UNCHANGED <<rp_objects, saving, creating, serialised, loaded>>

\* get_by_uuid() with its aggregates and resources, and the inventory
\* listing, from another context
ReadProvider ==
    /\ last = Idle
    /\ \E uuid \in Uuids :
          last' = [op |-> "read", err |-> None, what |-> uuid, id |-> NoId]
    /\ UNCHANGED <<resource_providers, inventories, allocations,
                   resource_provider_aggregates, next_id, rp_objects, saving,
                   creating, writing, serialised, loaded>>

\* create() of providers that stage aggregates and resources, while no
\* transaction is open
CreateProviderStaged ==
    /\ last = Idle
    /\ writing = {}
    /\ UNCHANGED <<saving, creating, writing, serialised, loaded>>
    /\ \E uuid \in Uuids, aggregates \in AggregateLists,
          resources \in StagedResourceLists :
          /\ Len(aggregates) + Len(resources) <= MaxStaged
          /\ create(NoId, uuid, None, Staged(aggregates, resources),
                    aggregates, resources)

NextVisibility ==
    \/ CreateProviderStaged
    \/ BeginSaveOfAggregates
    \/ BeginSaveOfResourceSet
    \/ BeginDestroy
    \/ Statement
    \/ EndWrite
    \/ ReadProvider
    \/ Return

SpecVisibility == Init /\ [][NextVisibility]_vars

----------------------------------------------------------------------------
(* Serialisation of a ResourceProvider for a consumer of an older version   *)

\* a version string is the sequence of its characters
V10 == <<"1", ".", "0">>
V11 == <<"1", ".", "1">>
V12 == <<"1", ".", "2">>
V13 == <<"1", ".", "3">>

VERSION == V12

DigitValue ==
    [c \in {"0", "1", "2", "3", "4", "5", "6", "7", "8", "9"} |->
        CASE c = "0" -> 0 [] c = "1" -> 1 [] c = "2" -> 2 [] c = "3" -> 3
          [] c = "4" -> 4 [] c = "5" -> 5 [] c = "6" -> 6 [] c = "7" -> 7
          [] c = "8" -> 8 [] c = "9" -> 9]

RECURSIVE ToInt(_)
ToInt(chars) ==
    IF chars = <<>> THEN 0
    ELSE ToInt(SubSeq(chars, 1, Len(chars) - 1)) * 10
            + DigitValue[chars[Len(chars)]]

\* the parts of a version string between its dots
RECURSIVE SplitOnDot(_, _)
SplitOnDot(chars, part) ==
    IF chars = <<>> THEN <<part>>
    ELSE IF Head(chars) = "." THEN <<part>> \o SplitOnDot(Tail(chars), <<>>)
    ELSE SplitOnDot(Tail(chars), Append(part, Head(chars)))

\* versionutils.convert_version_to_tuple: '1.2' gives (1, 2)
convert_version_to_tuple(version_str) ==
    LET parts == SplitOnDot(version_str, <<>>)
    IN [i \in 1..Len(parts) |-> ToInt(parts[i])]

\* the order of tuples: by the first item in which they differ, a proper
\* prefix being smaller
RECURSIVE TupleLess(_, _)
TupleLess(a, b) ==
    IF b = <<>> THEN FALSE
    ELSE IF a = <<>> THEN TRUE
    ELSE IF Head(a) # Head(b) THEN Head(a) < Head(b)
    ELSE TupleLess(Tail(a), Tail(b))

\* ResourceProvider.obj_relationships: for each field that holds objects,
\* the version of ResourceProvider from which it holds them and the version
\* of the objects held
obj_relationships ==
    [aggregates |-> << <<V12, V13>> >>, resources |-> << <<V12, V10>> >>]

\* the base class on a field that holds objects: for a target version from
\* before the first entry of the field's relationships, the field is taken
\* out of the primitive; otherwise it stays, its objects converted to the
\* version the relationships give
_obj_make_obj_compatible(primitive, target_version, field) ==
    IF TupleLess(convert_version_to_tuple(target_version),
                 convert_version_to_tuple(obj_relationships[field][1][1]))
    THEN Without(primitive, field)
    ELSE primitive

\* the base class: every field that holds objects and is in the primitive
base_obj_make_compatible(primitive, target_version) ==
    LET p1 == IF "aggregates" \in DOMAIN primitive
              THEN _obj_make_obj_compatible(primitive, target_version,
                                            "aggregates")
              ELSE primitive
    IN IF "resources" \in DOMAIN p1
       THEN _obj_make_obj_compatible(p1, target_version, "resources")
       ELSE p1

\* obj_make_compatible that leaves the name to the base class
obj_make_compatible_of_base_class(primitive, target_version) ==
    base_obj_make_compatible(primitive, target_version)

\* ResourceProvider.obj_make_compatible: the base class, then name is
\* deleted for a target version below (1, 1)
obj_make_compatible(primitive, target_version) ==
    LET p1 == base_obj_make_compatible(primitive, target_version)
    IN IF /\ TupleLess(convert_version_to_tuple(target_version), <<1, 1>>)
          /\ "name" \in DOMAIN p1
       THEN Without(p1, "name")
       ELSE p1

\* obj_to_primitive: the fields that are set, made compatible when the
\* target is not the version of the object
obj_to_primitive(obj, target_version) ==
    IF target_version # VERSION
    THEN obj_make_compatible(obj, target_version)
    ELSE obj

\* the objects that are serialised: each field is set or not, and a field
\* that is set has one of these values, written as the primitive has them
FieldValues ==
    [id |-> {"1"}, uuid |-> {"u1"}, name |-> {None, "n1"},
     aggregates |-> {"[]", "[agg1]"}, resources |-> {"[]"}]

SetFields == SUBSET {"id", "uuid", "name", "aggregates", "resources"}

Objects ==
    UNION { { obj \in [fs -> UNION { FieldValues[f] : f \in fs }] :
                \A f \in fs : obj[f] \in FieldValues[f] } : fs \in SetFields }

TargetVersions == {V10, V11, V12}

ToPrimitive ==
    /\ last = Idle
    /\ \E obj \in Objects, target_version \in TargetVersions :
          serialised' = {[obj |-> obj, target_version |-> target_version,
                          primitive |-> obj_to_primitive(obj, target_version)]}
    /\ UNCHANGED <<resource_providers, inventories, allocations,
                   resource_provider_aggregates, next_id, rp_objects, saving,
                   creating, writing, loaded, last>>

NextCompatible == ToPrimitive

SpecCompatible == Init /\ [][NextCompatible]_vars

----------------------------------------------------------------------------
(* The changes an object tracks.  get_by_uuid() gives an object with the    *)
(* fields of its row set and no change; aggregates and resources are loaded *)
(* on first access; an assignment by the caller marks the field as changed; *)
(* save() applies obj_get_changes().                                        *)

\* a list of the elements of a set, as a query returns them
AsList(S) == CHOOSE s \in Permutations_of(S) : TRUE

\* assignment to a field of the object: the field is set and changed
setattr(o, field, value) ==
    [o EXCEPT ![field] = value, !.isset = @ \cup {field},
              !.changed = @ \cup {field}]

obj_reset_changes(o, fields) == [o EXCEPT !.changed = @ \ fields]

\* what the lazy load reads from storage for the field
LoadedValue(d, o, attrname) ==
    IF attrname = "aggregates" THEN AsList(_get_aggregates(d, o.id))
    ELSE AsList(_get_resource_data(d, o.id))

\* obj_load_attr that leaves the loaded field marked as changed
obj_load_attr_without_reset(d, o, attrname) ==
    setattr(o, attrname, LoadedValue(d, o, attrname))

\* obj_load_attr: the field is read from storage, assigned, and its change
\* is reset
obj_load_attr(d, o, attrname) ==
    obj_reset_changes(setattr(o, attrname, LoadedValue(d, o, attrname)),
                      {attrname})

\* _from_db_object: the fields that are not lazy are set from the row, and
\* the changes are reset; `assigned` are the fields the caller has assigned
\* since, `statements` the number of statements its last save() has run
FromDbObject(row) ==
    [id |-> row.id, uuid |-> row.uuid, isset |-> {}, assigned |-> {},
     changed |-> {}, aggregates |-> <<>>, resources |-> <<>>,
     statements |-> 0]

\* the number of statements the transaction of save() runs for these changes
SaveStatements(d, obj, changed, aggregates, resources, existing_inventories, order) ==
    LET a == IF "aggregates" \in changed
             THEN AggregateSteps(d, obj, aggregates) ELSE <<>>
        s2 == save_transaction(d, obj, changed \ {"resources"}, None,
                               aggregates, <<>>, <<>>, <<>>, <<>>)
        r == IF /\ "resources" \in changed
                /\ s2.err = None
                /\ ExistingResources(d, obj.uuid).err = None
                /\ get_all_by_resource_provider_uuid(d, obj.uuid).err = None
             THEN ResourceSteps(s2.db, obj, resources,
                                ExistingResources(d, obj.uuid).resources,
                                existing_inventories, order)
             ELSE <<>>
    IN Len(a) + Len(r)

\* get_by_uuid(uuid) by a caller that keeps the object
LoadProvider ==
    /\ last = Idle
    /\ \E uuid \in Uuids :
          /\ get_by_uuid(DB, uuid).err = None
          /\ loaded' = { FromDbObject(row) : row \in get_by_uuid(DB, uuid).ret }
    /\ UNCHANGED <<resource_providers, inventories, allocations,
                   resource_provider_aggregates, next_id, rp_objects, saving,
                   creating, writing, serialised, last>>

\* first access to a lazy field of the object
LoadAttr ==
    /\ last = Idle
    /\ \E o \in loaded :
          \E attrname \in {"aggregates", "resources"} \ o.isset :
             loaded' = { obj_load_attr(DB, o, attrname) }
    /\ UNCHANGED <<resource_providers, inventories, allocations,
                   resource_provider_aggregates, next_id, rp_objects, saving,
                   creating, writing, serialised, last>>

\* the caller assigns a lazy field
SetAttr ==
    /\ last = Idle
    /\ \E o \in loaded :
          \/ \E aggregates \in AggregateLists :
                loaded' = { [setattr(o, "aggregates", aggregates)
                               EXCEPT !.assigned = @ \cup {"aggregates"}] }
          \/ \E resources \in RaceResourceLists :
                loaded' = { [setattr(o, "resources", resources)
                               EXCEPT !.assigned = @ \cup {"resources"}] }
    /\ UNCHANGED <<resource_providers, inventories, allocations,
                   resource_provider_aggregates, next_id, rp_objects, saving,
                   creating, writing, serialised, last>>

\* save() on the object: updates = obj_get_changes()
SaveLoaded ==
    /\ last = Idle
    /\ UNCHANGED <<saving, creating, writing, serialised>>
    /\ \E o \in loaded :
          LET obj == [id |-> o.id, uuid |-> o.uuid]
              changes == o.changed
          IN \E existing_inventories \in
                   IF "resources" \in changes
                   THEN ExistingInventories(DB, obj.uuid) ELSE {<<>>},
                order \in
                   IF "resources" \in changes
                   THEN Permutations_of(Dropped(DB, obj.uuid, o.resources))
                   ELSE {<<>>} :
                /\ save(obj, changes, None, o.aggregates, o.resources,
                        existing_inventories, order)
                /\ loaded' = { [o EXCEPT !.statements =
                                   SaveStatements(DB, obj, changes,
                                                  o.aggregates, o.resources,
                                                  existing_inventories,
                                                  order)] }

\* create() of providers that stage aggregates and resources
CreateProviderForLoad ==
    /\ last = Idle
    /\ UNCHANGED <<saving, creating, writing, serialised, loaded>>
    /\ \E uuid \in Uuids, aggregates \in AggregateLists,
          resources \in StagedResourceLists :
          /\ Len(aggregates) + Len(resources) <= MaxStaged
          /\ create(NoId, uuid, None, Staged(aggregates, resources),
                    aggregates, resources)

NextChanges ==
    \/ CreateProviderForLoad
    \/ LoadProvider
    \/ LoadAttr
    \/ SetAttr
    \/ SaveLoaded
    \/ Return

SpecChanges == Init /\ [][NextChanges]_vars

----------------------------------------------------------------------------
(* Vocabulary of the properties *)

\* the tables after the step
DB_after ==
    [rp |-> resource_providers', inv |-> inventories', alloc |-> allocations',
     rpa |-> resource_provider_aggregates', next |-> next_id']

TablesUnchanged ==
    /\ resource_providers' = resource_providers
    /\ inventories' = inventories
    /\ allocations' = allocations
    /\ resource_provider_aggregates' = resource_provider_aggregates

\* the sum of used over the allocation rows of a provider and class
UsedOf(alloc, rp_id, rc_id) ==
    SumUsed({ a \in alloc : a.resource_provider_id = rp_id
                            /\ a.resource_class_id = rc_id })

\* the inventory rows of a provider, and the classes they are for
RowsOf(inv, rp_id) == { i \in inv : i.resource_provider_id = rp_id }
Held(inv, rp_id) == { from_index(i.resource_class_id) : i \in RowsOf(inv, rp_id) }

Classes(resources) == { resources[k].resource_class : k \in DOMAIN resources }

\* a desired list that is a set: no class is named twice
IsSet(resources) ==
    \A j, k \in DOMAIN resources :
       j # k => resources[j].resource_class # resources[k].resource_class

\* the object is that of a provider whose row is stored
Persisted(obj) ==
    \E p \in resource_providers : p.id = obj.id /\ p.uuid = obj.uuid

\* the classes the provider holds whose desired capacity is below their usage
Shrunk(obj, resources) ==
    { c \in Held(inventories, obj.id) :
        \E k \in DOMAIN resources :
           /\ resources[k].resource_class = c
           /\ UsedOf(allocations, obj.id, index(c)) * RatioDen
                > (resources[k].total - resources[k].reserved)
                      * resources[k].allocation_ratio }

\* the classes the provider holds that are in use and not desired
DroppedInUse(obj, resources) ==
    { c \in Held(inventories, obj.id) \ Classes(resources) :
        UsedOf(allocations, obj.id, index(c)) > 0 }

\* every inventory row references a stored provider
NoOrphanInventory ==
    \A i \in inventories :
       \E p \in resource_providers : p.id = i.resource_provider_id

----------------------------------------------------------------------------
(* C1 *)

\* C1: in every state, for every inventory row, the sum of used over the
\* allocation rows of its provider and class is at most
\* (total - reserved) * allocation_ratio of the row; so an Allocation.create
\* or an Inventory.save that would exceed it does not commit
C1_CapacityInvariant ==
    \A i \in inventories :
       UsedOf(allocations, i.resource_provider_id, i.resource_class_id)
             * RatioDen
          <= (i.total - i.reserved) * i.allocation_ratio

----------------------------------------------------------------------------
(* C2 *)

\* C2: a save() of a desired resource set, on a stored provider, in which a
\* class the provider holds has a capacity below its usage raises
\* CapacityConflict naming such a class, and leaves every inventory row as
\* it was
C2_ShrinkRejectedAtomically ==
    [][ last'.op = "rp_save" =>
        \A obj \in { o \in rp_objects : o.id = last'.id },
           resources \in ResourceLists :
          (/\ Persisted(obj)
           /\ IsSet(resources)
           /\ Shrunk(obj, resources) # {})
          => \A existing_inventories \in ExistingInventories(DB, obj.uuid),
                order \in Permutations_of(Dropped(DB, obj.uuid, resources)) :
                save(obj, {"resources"}, None, <<>>, resources,
                     existing_inventories, order)
                => /\ last'.err = "CapacityConflict"
                   /\ last'.what \in Shrunk(obj, resources)
                   /\ inventories' = inventories ]_vars

\* the same, in the states where every inventory row references a stored
\* provider
C2_WithStoredProviders ==
    [][ (last'.op = "rp_save" /\ NoOrphanInventory) =>
        \A obj \in { o \in rp_objects : o.id = last'.id },
           resources \in ResourceLists :
          (/\ Persisted(obj)
           /\ IsSet(resources)
           /\ Shrunk(obj, resources) # {})
          => \A existing_inventories \in ExistingInventories(DB, obj.uuid),
                order \in Permutations_of(Dropped(DB, obj.uuid, resources)) :
                save(obj, {"resources"}, None, <<>>, resources,
                     existing_inventories, order)
                => /\ last'.err = "CapacityConflict"
                   /\ last'.what \in Shrunk(obj, resources)
                   /\ inventories' = inventories ]_vars

----------------------------------------------------------------------------
(* C3 *)

\* C3: a save() of a desired resource set, on a stored provider, that omits
\* a class the provider holds with used > 0 raises CapacityConflict, and no
\* inventory row is created, updated or deleted by the call
C3_DropRejectedAtomically ==
    [][ last'.op = "rp_save" =>
        \A obj \in { o \in rp_objects : o.id = last'.id },
           resources \in ResourceLists :
          (/\ Persisted(obj)
           /\ IsSet(resources)
           /\ DroppedInUse(obj, resources) # {})
          => \A existing_inventories \in ExistingInventories(DB, obj.uuid),
                order \in Permutations_of(Dropped(DB, obj.uuid, resources)) :
                save(obj, {"resources"}, None, <<>>, resources,
                     existing_inventories, order)
                => /\ last'.err = "CapacityConflict"
                   /\ inventories' = inventories ]_vars

\* the same, in the states where every inventory row references a stored
\* provider
C3_WithStoredProviders ==
    [][ (last'.op = "rp_save" /\ NoOrphanInventory) =>
        \A obj \in { o \in rp_objects : o.id = last'.id },
           resources \in ResourceLists :
          (/\ Persisted(obj)
           /\ IsSet(resources)
           /\ DroppedInUse(obj, resources) # {})
          => \A existing_inventories \in ExistingInventories(DB, obj.uuid),
                order \in Permutations_of(Dropped(DB, obj.uuid, resources)) :
                save(obj, {"resources"}, None, <<>>, resources,
                     existing_inventories, order)
                => /\ last'.err = "CapacityConflict"
                   /\ inventories' = inventories ]_vars

----------------------------------------------------------------------------
(* C4 *)

\* C4: after a successful save() of a desired resource set D on a stored
\* provider, the classes of the provider's usage view and the classes of
\* the inventory listing of its uuid are exactly the classes of D, each
\* listed once
C4_SetReplace ==
    [][ last'.op = "rp_save" =>
        \A obj \in { o \in rp_objects : o.id = last'.id },
           resources \in ResourceLists :
          Persisted(obj)
          => \A existing_inventories \in ExistingInventories(DB, obj.uuid),
                order \in Permutations_of(Dropped(DB, obj.uuid, resources)) :
                (/\ save(obj, {"resources"}, None, <<>>, resources,
                         existing_inventories, order)
                 /\ last'.err = None)
                => LET view == _get_resource_data(DB_after, obj.id)
                       listing == get_all_by_resource_provider_uuid(
                                      DB_after, obj.uuid)
                   IN /\ { r.resource_class : r \in view } = Classes(resources)
                      /\ Cardinality(view) = Cardinality(Classes(resources))
                      /\ listing.err = None
                      /\ { from_index(i.resource_class_id)
                             : i \in listing.objects } = Classes(resources)
                      /\ Cardinality(listing.objects)
                            = Cardinality(Classes(resources)) ]_vars

----------------------------------------------------------------------------
(* C5 *)

\* the provider holds a class with used > 0
InUse(rp_id) ==
    \E i \in RowsOf(inventories, rp_id) :
       UsedOf(allocations, rp_id, i.resource_class_id) > 0

Stored(rp_id) == \E p \in resource_providers : p.id = rp_id

----------------------------------------------------------------------------
(* C6 *)

\* C6: destroy() does not succeed while an allocation row references the
\* provider, whatever its class, and after a successful destroy() no
\* allocation row references the destroyed provider
C6_NoDestroyWithAllocations ==
    [][ (last'.op = "rp_destroy" /\ last'.err = None) =>
          /\ ~ \E a \in allocations : a.resource_provider_id = last'.id
          /\ ~ \E a \in allocations' : a.resource_provider_id = last'.id
      ]_vars

----------------------------------------------------------------------------
(* C7 *)

\* C7: after a successful destroy() the provider row is gone, get_by_uuid
\* of its uuid raises NotFound, and no inventory row and no association row
\* has the provider's id
C7_DestroyCascade ==
    [][ (last'.op = "rp_destroy" /\ last'.err = None) =>
          /\ Stored(last'.id)
          /\ \A p \in { q \in resource_providers : q.id = last'.id } :
                /\ ~ \E q \in resource_providers' : q.id = p.id
                /\ get_by_uuid(DB_after, p.uuid).err = "NotFound"
                /\ RowsOf(inventories', p.id) = {}
                /\ ~ \E r \in resource_provider_aggregates' :
                        r.resource_provider_id = p.id ]_vars

\* a provider was destroyed, every inventory id was handed out, and what is
\* left is another provider with its inventory row and its association
C7_Destroyed ==
    /\ last.op = "rp_destroy"
    /\ last.err = None
    /\ next_id.inv = MaxInvId + 1
    /\ Cardinality(inventories) = 1
    /\ Cardinality(resource_provider_aggregates) = 1
    /\ \A i \in inventories :
          i.resource_provider_id # last.id /\ Stored(i.resource_provider_id)
    /\ \A r \in resource_provider_aggregates :
          r.resource_provider_id # last.id

----------------------------------------------------------------------------
(* C8 *)

\* C8: destroy() of a ResourceProvider, Inventory or Allocation that has no
\* row (destroyed before, or never persisted) raises NotFound and changes
\* no row
C8_DestroyAbsent ==
    [][ /\ (last'.op = "rp_destroy" /\ ~ Stored(last'.id))
              => (last'.err = "NotFound" /\ TablesUnchanged)
        /\ (last'.op = "inv_destroy"
              /\ ~ \E i \in inventories : i.id = last'.id)
              => (last'.err = "NotFound" /\ TablesUnchanged)
        /\ (last'.op = "alloc_destroy"
              /\ ~ \E a \in allocations : a.id = last'.id)
              => (last'.err = "NotFound" /\ TablesUnchanged) ]_vars

----------------------------------------------------------------------------
(* C9 *)

\* C9: a successful create() for uuid U and name N stores a row that
\* get_by_uuid(U) returns with U, N and the id given to the object; every
\* stored row is what get_by_uuid of its uuid returns, and stays stored
\* until a destroy() of its id succeeds; get_by_uuid of a uuid without a
\* row raises NotFound
C9_RoundTrip ==
    [][ /\ (last'.op = "rp_create" /\ last'.err = None) =>
              \A uuid \in Uuids, name \in Names,
                 aggregates \in AggregateLists,
                 resources \in StagedResourceLists :
                 create(NoId, uuid, name, Staged(aggregates, resources),
                        aggregates, resources)
                 => get_by_uuid(DB_after, uuid)
                      = [err |-> None,
                         ret |-> {[id |-> last'.id, uuid |-> uuid,
                                   name |-> name]}]
        /\ \A p \in resource_providers :
              /\ get_by_uuid(DB, p.uuid) = [err |-> None, ret |-> {p}]
              /\ \/ p \in resource_providers'
                 \/ (last'.op = "rp_destroy" /\ last'.id = p.id
                       /\ last'.err = None)
        /\ last'.op = "get_by_uuid" =>
              IF \E p \in resource_providers : p.uuid = last'.what
              THEN /\ last'.err = None
                   /\ \E p \in resource_providers :
                         p.uuid = last'.what /\ p.id = last'.id
              ELSE last'.err = "NotFound" ]_vars

\* get_by_uuid returned the second of two stored providers, a named one
C9_Retrieved ==
    /\ last.op = "get_by_uuid"
    /\ last.err = None
    /\ Cardinality(resource_providers) = 2
    /\ \E p \in resource_providers :
          p.id = last.id /\ p.uuid = last.what /\ p.id = 2 /\ p.name # None

----------------------------------------------------------------------------
(* C10 *)

\* C10: create() on an object that carries an id raises AlreadyCreated,
\* create() on an object without uuid raises MissingIdentifier, and neither
\* writes a row
C10_CreatePreconditions ==
    [][ last'.op = "rp_create" =>
          /\ \A obj_id \in 1..MaxRpId, uuid \in Uuids \cup {Unset} :
                create(obj_id, uuid, None, {}, <<>>, <<>>)
                => (last'.err = "AlreadyCreated" /\ TablesUnchanged)
          /\ create(NoId, Unset, None, {}, <<>>, <<>>)
                => (last'.err = "MissingIdentifier" /\ TablesUnchanged)
      ]_vars

\* create() was refused on the object of the one stored provider
C10_Refused ==
    /\ last.op = "rp_create"
    /\ last.err = "AlreadyCreated"
    /\ Stored(last.id)
    /\ Cardinality(resource_providers) = 1

----------------------------------------------------------------------------
(* C11 *)

\* an aggregate is listed twice
Repeated(aggregates) ==
    \E j, k \in DOMAIN aggregates : j # k /\ aggregates[j] = aggregates[k]

\* C11: create() for a uuid that has a provider row raises
\* DuplicateProvider, also when it stages aggregates; create() for a new
\* uuid that stages an aggregate twice raises DuplicateAssociation; and the
\* kind raised names the constraint that was violated: DuplicateProvider is
\* raised only for a uuid that has a row, DuplicateAssociation only for a
\* repeated aggregate
C11_DuplicateCause ==
    [][ last'.op = "rp_create" =>
        \A uuid \in Uuids, name \in Names,
           aggregates \in AggregateLists, resources \in StagedResourceLists :
           create(NoId, uuid, name, Staged(aggregates, resources),
                  aggregates, resources)
           => LET taken == \E p \in resource_providers : p.uuid = uuid
              IN /\ taken => last'.err = "DuplicateProvider"
                 /\ (~ taken /\ Repeated(aggregates))
                       => last'.err = "DuplicateAssociation"
                 /\ last'.err = "DuplicateProvider" => taken
                 /\ last'.err = "DuplicateAssociation" => Repeated(aggregates)
      ]_vars

\* the duplicate uuid and the repeated aggregate, and the association
\* kind, without the requirement that DuplicateProvider is raised for a
\* taken uuid only: what create() raises in every state a call can start
\* from
C11_NamedCauses ==
    last = Idle =>
        \A uuid \in Uuids, name \in Names,
           aggregates \in AggregateLists, resources \in StagedResourceLists :
           LET res == ResourceProvider_create(DB, NoId, uuid, name,
                          Staged(aggregates, resources), aggregates, resources)
               taken == \E p \in resource_providers : p.uuid = uuid
           IN /\ taken => res.err = "DuplicateProvider"
              /\ (~ taken /\ Repeated(aggregates))
                    => res.err = "DuplicateAssociation"
              /\ res.err = "DuplicateAssociation" => Repeated(aggregates)

----------------------------------------------------------------------------
(* C12 *)

\* C12: a create() that raises after it inserted the provider row leaves
\* every table as it was before the call (no provider row, association row
\* or inventory row of the call remains), and get_by_uuid of its uuid
\* raises NotFound
C12_CreateAllOrNothing ==
    [][ (last'.op = "rp_create" /\ last'.err # None
           /\ next_id'.rp > next_id.rp) =>
        /\ TablesUnchanged
        /\ \A uuid \in Uuids, name \in Names,
              aggregates \in AggregateLists,
              resources \in StagedResourceLists :
              create(NoId, uuid, name, Staged(aggregates, resources),
                     aggregates, resources)
              => get_by_uuid(DB_after, uuid).err = "NotFound" ]_vars

\* create() raised on a repeated aggregate after it inserted the provider
\* row, while another provider with an association is stored
C12_RolledBack ==
    /\ last.op = "rp_create"
    /\ last.err = "DuplicateAssociation"
    /\ last.id # NoId
    /\ ~ Stored(last.id)
    /\ \E r \in resource_provider_aggregates : Stored(r.resource_provider_id)

----------------------------------------------------------------------------
(* C13 *)

\* the aggregates associated with a provider in a table of associations
AssociatedWith(rpa, rp_id) ==
    { r.aggregate_id : r \in { x \in rpa : x.resource_provider_id = rp_id } }

\* the associations of a provider are those of the list, one row each, and
\* the associations of the other providers are as they were
ReplacedBy(rp_id, aggregates) ==
    /\ AssociatedWith(resource_provider_aggregates', rp_id) = Range(aggregates)
    /\ _get_aggregates(DB_after, rp_id) = Range(aggregates)
    /\ Cardinality({ r \in resource_provider_aggregates' :
                        r.resource_provider_id = rp_id }) = Len(aggregates)
    /\ { r \in resource_provider_aggregates' : r.resource_provider_id # rp_id }
          = { r \in resource_provider_aggregates :
                 r.resource_provider_id # rp_id }

\* C13: after a successful save() whose changed aggregates list S names no
\* aggregate twice, alone or together with a changed resource list, the
\* aggregates associated with the provider are exactly those of S, one row
\* each, and the associations of the other providers are as they were
C13_AggregateSetReplace ==
    [][ (last'.op = "rp_save" /\ last'.err = None) =>
        \A obj \in { o \in rp_objects : o.id = last'.id },
           aggregates \in { a \in AggregateLists : ~ Repeated(a) } :
           /\ save(obj, {"aggregates"}, None, aggregates, <<>>, <<>>, <<>>)
                 => ReplacedBy(obj.id, aggregates)
           /\ \A resources \in { r \in ResourceLists :
                                    Len(aggregates) + Len(r) < MaxStaged } :
              \A existing_inventories \in ExistingInventories(DB, obj.uuid),
                 order \in Permutations_of(Dropped(DB, obj.uuid, resources)) :
                 save(obj, {"aggregates", "resources"}, None, aggregates,
                      resources, existing_inventories, order)
                 => ReplacedBy(obj.id, aggregates) ]_vars

\* a save() succeeded on the second of two stored providers; it has no
\* association left and the first provider has one
C13_Replaced ==
    /\ last.op = "rp_save"
    /\ last.err = None
    /\ last.id = 2
    /\ Stored(1) /\ Stored(2)
    /\ AssociatedWith(resource_provider_aggregates, 2) = {}
    /\ AssociatedWith(resource_provider_aggregates, 1) # {}
    /\ inventories = {}

----------------------------------------------------------------------------
(* C14 *)

\* C14: a save() whose changed aggregates list names an aggregate twice
\* raises DuplicateAssociation and leaves the associations as they were
\* before the call, whatever else the save changes
C14_RepeatedAggregateRejected ==
    [][ last'.op = "rp_save" =>
        \A obj \in { o \in rp_objects : o.id = last'.id },
           aggregates \in AggregateLists, changed \in {{}, {"name"}} :
           (/\ Repeated(aggregates)
            /\ save(obj, changed \cup {"aggregates"}, None, aggregates,
                    <<>>, <<>>, <<>>))
           => /\ last'.err = "DuplicateAssociation"
              /\ resource_provider_aggregates' = resource_provider_aggregates
      ]_vars

\* the same for the saves that change the aggregates only
C14_AggregatesOnly ==
    [][ last'.op = "rp_save" =>
        \A obj \in { o \in rp_objects : o.id = last'.id },
           aggregates \in AggregateLists :
           (/\ Repeated(aggregates)
            /\ save(obj, {"aggregates"}, None, aggregates, <<>>, <<>>, <<>>))
           => /\ last'.err = "DuplicateAssociation"
              /\ resource_provider_aggregates' = resource_provider_aggregates
      ]_vars

----------------------------------------------------------------------------
(* C15 *)

\* C15: a save() of a changed name N2 on a stored provider returns, after
\* it get_by_uuid of the provider gives the same id and uuid with name N2,
\* and the rows of the other providers are as they were; the save raises
\* NotFound when the provider has no row, and only then
C15_NameUpdate ==
    [][ last'.op = "rp_save" =>
        \A obj \in { o \in rp_objects : o.id = last'.id }, name \in Names :
           save(obj, {"name"}, name, <<>>, <<>>, <<>>, <<>>)
           => IF Stored(obj.id)
              THEN /\ last'.err = None
                   /\ get_by_uuid(DB_after, obj.uuid)
                        = [err |-> None,
                           ret |-> {[id |-> obj.id, uuid |-> obj.uuid,
                                     name |-> name]}]
                   /\ { p \in resource_providers' : p.id # obj.id }
                        = { p \in resource_providers : p.id # obj.id }
              ELSE last'.err = "NotFound" ]_vars

----------------------------------------------------------------------------
(* C16 *)

----------------------------------------------------------------------------
(* C17 *)

\* C17: get_all() returns one entry for each stored provider, whether it
\* has associations or not, and no other entry; it returns the empty list
\* when no provider is stored
C17_GetAll ==
    last.op = "get_all" =>
        \A list \in get_all(DB) :
           /\ { [id |-> e.id, uuid |-> e.uuid, name |-> e.name] : e \in list }
                 = resource_providers
           /\ Cardinality(list) = Cardinality(resource_providers)

\* the same for the stored providers that have an association
C17_AssociatedProviders ==
    last.op = "get_all" =>
        \A list \in get_all(DB) :
           /\ { [id |-> e.id, uuid |-> e.uuid, name |-> e.name] : e \in list }
                 = { p \in resource_providers :
                       AssociatedWith(resource_provider_aggregates, p.id) # {} }
           /\ Cardinality(list)
                 = Cardinality({ p \in resource_providers :
                       AssociatedWith(resource_provider_aggregates, p.id) # {} })

----------------------------------------------------------------------------
(* C18 *)

\* the inventory rows of the providers that have a uuid
OwnedBy(uuid) ==
    { i \in inventories :
        \E p \in resource_providers :
           p.uuid = uuid /\ p.id = i.resource_provider_id }

\* C18: get_all_by_resource_provider_uuid(U) returns the inventory rows
\* whose provider has uuid U and no other row; it returns the empty list
\* when no provider has uuid U
C18_ListingByUuid ==
    last.op = "inv_list" =>
        /\ last.err = None
        /\ get_all_by_resource_provider_uuid(DB, last.what).objects
              = OwnedBy(last.what)

----------------------------------------------------------------------------
(* C20 *)

\* what the preconditions of create() give for a record with these fields
Precondition(obj_id, rp_id, resource_class) ==
    IF obj_id # NoId THEN "AlreadyCreated"
    ELSE IF rp_id \in {NoProvider, NoId} THEN "MissingProvider"
    ELSE IF resource_class = Unset THEN "MissingResourceClass"
    ELSE None

\* C20: Inventory.create() and Allocation.create() raise AlreadyCreated on
\* a record that carries an id, MissingProvider when the provider is not set
\* or has no id, MissingResourceClass when the provider has an id and the
\* class is not set; a create() that raises writes no row
C20_CreatePreconditions ==
    [][ /\ last'.op = "inv_create" =>
              /\ last'.err # None => TablesUnchanged
              /\ \A obj_id \in {NoId, 1}, rp_id \in ProviderArguments,
                    resource_class \in ResourceClasses \cup {Unset},
                    cap \in Capacities :
                    (/\ inventory_create(obj_id, rp_id, resource_class, cap)
                     /\ Precondition(obj_id, rp_id, resource_class) # None)
                    => last'.err
                          = Precondition(obj_id, rp_id, resource_class)
        /\ last'.op = "alloc_create" =>
              /\ last'.err # None => TablesUnchanged
              /\ \A obj_id \in {NoId, 1}, rp_id \in ProviderArguments,
                    resource_class \in ResourceClasses \cup {Unset},
                    consumer_id \in Consumers, used \in UsedValues :
                    (/\ allocation_create(obj_id, rp_id, resource_class,
                                          consumer_id, used)
                     /\ Precondition(obj_id, rp_id, resource_class) # None)
                    => last'.err
                          = Precondition(obj_id, rp_id, resource_class)
      ]_vars

\* Allocation.create() was refused for a missing class while a provider
\* with an inventory row is stored
C20_Refused ==
    /\ last.op = "alloc_create"
    /\ last.err = "MissingResourceClass"
    /\ \E i \in inventories : Stored(i.resource_provider_id)

----------------------------------------------------------------------------
(* C19 *)

----------------------------------------------------------------------------
(* C21 *)

\* the inventory row with this id
RowWithId(inv, id) == { i \in inv : i.id = id }

\* the inventory listing of the uuid of the provider that owns the row
\* returns the row
ListedForOwner(d, row) ==
    \A p \in d.rp :
       p.id = row.resource_provider_id
       => /\ get_all_by_resource_provider_uuid(d, p.uuid).err = None
          /\ row \in get_all_by_resource_provider_uuid(d, p.uuid).objects

\* what Inventory.save() is to do on an object with this id and these
\* changed fields
SavedAsStated(obj_id, updates) ==
    IF obj_id = NoId
    THEN last'.err = "NotCreated" /\ TablesUnchanged
    ELSE IF RowWithId(inventories, obj_id) = {}
    THEN last'.err = "NotFound"
    ELSE LET row == CHOOSE i \in inventories : i.id = obj_id
             new == UpdatedRow(row, updates)
         IN /\ last'.err = None
            /\ \A f \in DOMAIN row \ DOMAIN updates : new[f] = row[f]
            /\ \A f \in DOMAIN updates : new[f] = updates[f]
            /\ inventories' = (inventories \ {row}) \cup {new}
            /\ Cardinality(inventories') = Cardinality(inventories)
            /\ resource_providers' = resource_providers
            /\ allocations' = allocations
            /\ resource_provider_aggregates' = resource_provider_aggregates
            /\ ListedForOwner(DB_after, new)

C21_WithStoredProviders ==
    [][ (last'.op = "inv_save" /\ NoOrphanInventory) =>
        \A obj_id \in {NoId} \cup 1..MaxInvId, updates \in InventoryUpdates :
           inventory_save(obj_id, updates) => SavedAsStated(obj_id, updates)
      ]_vars

----------------------------------------------------------------------------
(* C22 *)

\* the allocation rows stored for a provider id and a resource class
StoredFor(alloc, rp_id, resource_class) ==
    { a \in alloc : /\ a.resource_provider_id = rp_id
                    /\ from_index(a.resource_class_id) = resource_class }

\* C22: get_allocations(provider, class) returns exactly the allocation
\* rows stored for that provider and class: the row of a create() is in the
\* list of its provider and class from then on and in no other list, the
\* row of a destroy() is in no list, any other row listed before a step is
\* listed after it, and a provider id without rows has an empty list
C22_AllocationListing ==
    [][ \A rp_id \in 1..MaxRpId, resource_class \in ResourceClasses :
        LET before == get_allocations(DB, rp_id, resource_class)
            after == get_allocations(DB_after, rp_id, resource_class)
        IN /\ after = StoredFor(allocations', rp_id, resource_class)
           /\ (~ \E a \in allocations' : a.resource_provider_id = rp_id)
                 => after = {}
           /\ (last'.op = "alloc_create" /\ last'.err = None)
                 => \E a \in allocations' :
                       /\ a.id = last'.id
                       /\ a \in after <=>
                            (/\ a.resource_provider_id = rp_id
                             /\ from_index(a.resource_class_id) = resource_class)
                       /\ after \ {a} = before
           /\ (last'.op = "alloc_destroy" /\ last'.err = None)
                 => /\ ~ \E a \in after : a.id = last'.id
                    /\ after = { a \in before : a.id # last'.id }
           /\ last'.op \notin {"alloc_create", "alloc_destroy"}
                 => after = before ]_vars

\* a listing that returns a row, the listing of the same provider for
\* another class being empty
C22_Listed ==
    /\ last.op = "alloc_list"
    /\ get_allocations(DB, last.id, last.what) # {}
    /\ \E c \in ResourceClasses : get_allocations(DB, last.id, c) = {}

----------------------------------------------------------------------------
(* C23 *)

\* the effective capacity of a descriptor covers this usage
Covers(resource, used) ==
    used * RatioDen
        <= (resource.total - resource.reserved) * resource.allocation_ratio

\* the decision a save took on the classes it read is valid for the usage
\* stored when its transaction commits
DecisionValid(s) ==
    \A c \in DOMAIN s.existing_resources :
       /\ \A k \in DOMAIN s.resources :
             s.resources[k].resource_class = c
             => Covers(s.resources[k], UsedOf(allocations, s.obj.id, index(c)))
       /\ c \notin Classes(s.resources)
             => UsedOf(allocations, s.obj.id, index(c)) = 0

\* C23: when the transaction of a save() of a resource set commits, for
\* every class the save read the desired effective capacity is at least the
\* usage stored for that class at that moment, and a class it drops has no
\* usage stored at that moment, whatever Allocation.create and
\* Allocation.destroy calls committed since the save read the usage
C23_DecisionValidAtCommit ==
    [][ (last'.op = "rp_save" /\ last'.err = None)
        => \A s \in saving \ saving' : DecisionValid(s) ]_vars

----------------------------------------------------------------------------
(* C24 *)

\* no two provider rows share a uuid or an id
ProviderKeysUnique(rows) ==
    \A p, q \in rows : (p.uuid = q.uuid \/ p.id = q.id) => p = q

\* C24: in every state no two provider rows share a uuid or a numeric id;
\* and of the create() calls in flight with the same uuid, in whatever order
\* their transactions run, the one that runs while a row with the uuid is
\* stored fails with DuplicateProvider and stores nothing, so at most one of
\* them commits
C24_DuplicateKeyRace ==
    [][ /\ ProviderKeysUnique(resource_providers')
        /\ \A c \in creating \ creating' :
              (\E p \in resource_providers : p.uuid = c.uuid)
              => /\ last'.op = "rp_create"
                 /\ last'.err = "DuplicateProvider"
                 /\ TablesUnchanged ]_vars

\* one of two calls in flight with the same uuid has committed its row, the
\* other has not yet run its transaction
C24_Raced ==
    /\ last.op = "rp_create"
    /\ last.err = None
    /\ \E c \in creating, p \in resource_providers :
          p.id = last.id /\ p.uuid = c.uuid

----------------------------------------------------------------------------
(* C25 *)

\* the tables a transaction leaves when its block is left
Left(w) == Transaction(w.before, w.res)

\* the working copy of the transaction is between two of its statements:
\* it is neither what the transaction started from nor what it leaves
Intermediate(w) ==
    /\ <<w.working.rp, w.working.inv, w.working.rpa>>
          # <<w.before.rp, w.before.inv, w.before.rpa>>
    /\ <<w.working.rp, w.working.inv, w.working.rpa>>
          # <<Left(w).rp, Left(w).inv, Left(w).rpa>>

----------------------------------------------------------------------------
(* C26 *)

\* the primitive has the field, with the value the object has
Kept(s, f) == f \in DOMAIN s.primitive /\ s.primitive[f] = s.obj[f]

\* C26: the primitive of a ResourceProvider for target version 1.0 has no
\* name; for 1.1 it keeps name when name is set and has neither aggregates
\* nor resources; for 1.2 it has exactly the fields that are set, with
\* their values
C26_VersionDowngrade ==
    \A s \in serialised :
       /\ s.target_version = V10 => "name" \notin DOMAIN s.primitive
       /\ s.target_version = V11
             => /\ "name" \in DOMAIN s.obj => Kept(s, "name")
                /\ "aggregates" \notin DOMAIN s.primitive
                /\ "resources" \notin DOMAIN s.primitive
       /\ s.target_version = V12
             => /\ DOMAIN s.primitive = DOMAIN s.obj
                /\ \A f \in DOMAIN s.obj : Kept(s, f)

\* an object with name, aggregates and resources set, serialised for 1.0
C26_Downgraded ==
    \E s \in serialised :
       /\ {"name", "aggregates", "resources"} \subseteq DOMAIN s.obj
       /\ s.target_version = V10
       /\ DOMAIN s.primitive = DOMAIN s.obj \ {"name", "aggregates", "resources"}

----------------------------------------------------------------------------
(* C27 *)

\* the rows of a table that other providers own
OthersRows(rows, rp_id) == { r \in rows : r.resource_provider_id # rp_id }

\* C27: a save() or create() of a provider leaves every inventory row and
\* every association row of every other provider as it was
C27_FrameAcrossProviders ==
    [][ last'.op \in {"rp_save", "rp_create"}
        => /\ OthersRows(inventories', last'.id)
                 = OthersRows(inventories, last'.id)
           /\ OthersRows(resource_provider_aggregates', last'.id)
                 = OthersRows(resource_provider_aggregates, last'.id)
      ]_vars

\* the same for create() and, of save(), for the association rows
C27_CreateAndAssociations ==
    [][ last'.op \in {"rp_save", "rp_create"}
        => /\ last'.op = "rp_create"
                 => OthersRows(inventories', last'.id)
                       = OthersRows(inventories, last'.id)
           /\ OthersRows(resource_provider_aggregates', last'.id)
                 = OthersRows(resource_provider_aggregates, last'.id)
      ]_vars

----------------------------------------------------------------------------
(* C28 *)

\* C28: a successful save() that starts in a state where every inventory
\* row covers the usage of its provider and class ends in such a state
C28_ReconciliationPreservesCapacity ==
    [][ (last'.op = "rp_save" /\ last'.err = None /\ C1_CapacityInvariant)
        => C1_CapacityInvariant' ]_vars

\* every allocation row is for a provider and class that has an inventory row
AllocationsInventoried ==
    \A a \in allocations :
       \E i \in inventories :
          /\ i.resource_provider_id = a.resource_provider_id
          /\ i.resource_class_id = a.resource_class_id

\* the same, when the saved provider is the only one that holds inventory
\* and every allocation is for a class that has an inventory row
C28_SingleHolder ==
    [][ (/\ last'.op = "rp_save" /\ last'.err = None
         /\ C1_CapacityInvariant
         /\ AllocationsInventoried
         /\ OthersRows(inventories, last'.id) = {})
        => C1_CapacityInvariant' ]_vars

----------------------------------------------------------------------------
(* C29 *)

\* after the step the provider has a row for the class of the descriptor
\* that carries the descriptor's capacity fields, and it is the row the
\* provider had for the class when it had one
CarriesDesired(rp_id, resource) ==
    \E i \in RowsOf(inventories', rp_id) :
       /\ from_index(i.resource_class_id) = resource.resource_class
       /\ \A f \in CapacityFields : i[f] = resource[f]
       /\ \A j \in RowsOf(inventories, rp_id) :
             j.resource_class_id = i.resource_class_id => j.id = i.id

\* C29: after a successful save() of a desired resource list on a stored
\* provider, for every desired class the provider's own inventory row of
\* that class carries the desired total, reserved, min_unit, max_unit,
\* step_size and allocation_ratio: the row it had, with the same id, or a
\* new row for a class it did not have
C29_DesiredValuesStored ==
    [][ (last'.op = "rp_save" /\ last'.err = None) =>
        \A obj \in { o \in rp_objects : o.id = last'.id },
           resources \in ResourceLists :
          Persisted(obj)
          => \A existing_inventories \in ExistingInventories(DB, obj.uuid),
                order \in Permutations_of(Dropped(DB, obj.uuid, resources)) :
                save(obj, {"resources"}, None, <<>>, resources,
                     existing_inventories, order)
                => \A k \in DOMAIN resources :
                      CarriesDesired(obj.id, resources[k]) ]_vars

\* the same, when no other provider holds an inventory row
C29_WithoutOtherHolders ==
    [][ (/\ last'.op = "rp_save" /\ last'.err = None
         /\ OthersRows(inventories, last'.id) = {}) =>
        \A obj \in { o \in rp_objects : o.id = last'.id },
           resources \in ResourceLists :
          Persisted(obj)
          => \A existing_inventories \in ExistingInventories(DB, obj.uuid),
                order \in Permutations_of(Dropped(DB, obj.uuid, resources)) :
                save(obj, {"resources"}, None, <<>>, resources,
                     existing_inventories, order)
                => \A k \in DOMAIN resources :
                      CarriesDesired(obj.id, resources[k]) ]_vars

----------------------------------------------------------------------------
(* C30 *)

\* the desired list as a caller builds it from a view that shows no usage:
\* every entry carries used = 0
StaleView(resources) ==
    [k \in DOMAIN resources |->
        [resource_class |-> resources[k].resource_class,
         total |-> resources[k].total, reserved |-> resources[k].reserved,
         min_unit |-> resources[k].min_unit,
         max_unit |-> resources[k].max_unit,
         step_size |-> resources[k].step_size,
         allocation_ratio |-> resources[k].allocation_ratio, used |-> 0]]

\* C30: a save() of a desired set whose entries carry used = 0, on a stored
\* provider, raises CapacityConflict when the usage stored for a class the
\* provider holds is above the desired capacity of the class, and when the
\* set omits a class the provider holds with stored usage
C30_StorageUsageDecides ==
    [][ last'.op = "rp_save" =>
        \A obj \in { o \in rp_objects : o.id = last'.id },
           resources \in ResourceLists :
          (/\ Persisted(obj)
           /\ IsSet(resources)
           /\ \/ Shrunk(obj, resources) # {}
              \/ DroppedInUse(obj, resources) # {})
          => \A existing_inventories \in ExistingInventories(DB, obj.uuid),
                order \in Permutations_of(Dropped(DB, obj.uuid, resources)) :
                save(obj, {"resources"}, None, <<>>, StaleView(resources),
                     existing_inventories, order)
                => last'.err = "CapacityConflict" ]_vars

\* the same, in the states where every inventory row references a stored
\* provider
C30_WithStoredProviders ==
    [][ (last'.op = "rp_save" /\ NoOrphanInventory) =>
        \A obj \in { o \in rp_objects : o.id = last'.id },
           resources \in ResourceLists :
          (/\ Persisted(obj)
           /\ IsSet(resources)
           /\ \/ Shrunk(obj, resources) # {}
              \/ DroppedInUse(obj, resources) # {})
          => \A existing_inventories \in ExistingInventories(DB, obj.uuid),
                order \in Permutations_of(Dropped(DB, obj.uuid, resources)) :
                save(obj, {"resources"}, None, <<>>, StaleView(resources),
                     existing_inventories, order)
                => last'.err = "CapacityConflict" ]_vars

----------------------------------------------------------------------------
(* C31 *)

\* the classes the provider holds whose usage is above 0 and equal to the
\* desired capacity
AtCapacity(obj, resources) ==
    { c \in Held(inventories, obj.id) :
        \E k \in DOMAIN resources :
           /\ resources[k].resource_class = c
           /\ UsedOf(allocations, obj.id, index(c)) > 0
           /\ UsedOf(allocations, obj.id, index(c)) * RatioDen
                = (resources[k].total - resources[k].reserved)
                      * resources[k].allocation_ratio }

\* C31: in every state where a call can start, a save() of a desired set on
\* a stored provider whose reads of the usage view and of the inventory
\* listing return, so that the reconciliation runs, raises CapacityConflict
\* exactly when a class the provider holds has a usage strictly above its
\* desired capacity (total - reserved) * allocation_ratio or a class it holds
\* and the set omits has a usage strictly above 0; a usage equal to the
\* desired capacity is accepted
C31_ConflictBoundary ==
    last = Idle =>
    \A obj \in rp_objects, resources \in ResourceLists :
       (/\ Persisted(obj)
        /\ IsSet(resources)
        /\ get_all_by_resource_provider_uuid(DB, obj.uuid).err = None)
       => \A existing_inventories \in ExistingInventories(DB, obj.uuid),
             order \in Permutations_of(Dropped(DB, obj.uuid, resources)) :
             LET res == ResourceProvider_save(DB, obj, {"resources"}, None,
                                              <<>>, resources,
                                              existing_inventories, order)
             IN /\ res.err = "CapacityConflict"
                     <=> \/ Shrunk(obj, resources) # {}
                         \/ DroppedInUse(obj, resources) # {}
                /\ (/\ AtCapacity(obj, resources) # {}
                    /\ Shrunk(obj, resources) = {}
                    /\ DroppedInUse(obj, resources) = {})
                   => res.err = None

\* a save has succeeded on a provider that holds a class whose usage is
\* above 0 and equal to the capacity of its row
C31_AcceptedAtCapacity ==
    /\ last.op = "rp_save"
    /\ last.err = None
    /\ \E i \in RowsOf(inventories, last.id) :
          /\ UsedOf(allocations, last.id, i.resource_class_id) > 0
          /\ UsedOf(allocations, last.id, i.resource_class_id) * RatioDen
                = (i.total - i.reserved) * i.allocation_ratio

----------------------------------------------------------------------------
(* C32 *)

\* the inventory rows of the provider are one for each descriptor of the
\* list, with its class and its capacity parameters
OneRowEach(inv, rp_id, resources) ==
    /\ Cardinality(RowsOf(inv, rp_id)) = Len(resources)
    /\ \A k \in DOMAIN resources :
          \E i \in RowsOf(inv, rp_id) :
             /\ i.resource_class_id = index(resources[k].resource_class)
             /\ \A f \in CapacityFields : i[f] = resources[k][f]

\* C32: a create() that succeeds with resource descriptors staged on the
\* object stores the provider row and exactly one inventory row for each
\* staged descriptor, with its class and capacity parameters, and the usage
\* view of the new provider then reports used = 0 for each of these classes;
\* in every state the used value the view reports for a class of a stored
\* provider is the sum of used over its allocation rows of that class
C32_CreateWithResources ==
    [][ /\ (last'.op = "rp_create" /\ last'.err = None) =>
           \A uuid \in Uuids, name \in Names, aggregates \in AggregateLists,
              resources \in StagedResourceLists :
              create(NoId, uuid, name, Staged(aggregates, resources),
                     aggregates, resources)
              => /\ \E p \in resource_providers' \ resource_providers :
                       p.id = last'.id /\ p.uuid = uuid
                 /\ OneRowEach(inventories', last'.id, resources)
                 /\ { [resource_class |-> r.resource_class, used |-> r.used]
                        : r \in _get_resource_data(DB_after, last'.id) }
                      = { [resource_class |-> c, used |-> 0]
                            : c \in Classes(resources) }
        /\ \A p \in resource_providers' :
              \A r \in _get_resource_data(DB_after, p.id) :
                 r.used = UsedOf(allocations', p.id, index(r.resource_class))
      ]_vars

\* a create() with two staged descriptors has succeeded
C32_CreatedWithTwo ==
    /\ last.op = "rp_create"
    /\ last.err = None
    /\ Cardinality(RowsOf(inventories, last.id)) = 2

----------------------------------------------------------------------------
(* C33 *)

\* C33: in every state where a call can start, a save() of a desired
\* resource set, whether it returns or raises, creates, changes or deletes
\* no allocation row, not even inside its transaction; and when it returns,
\* every class that was in the usage view of the object's provider and is
\* in the desired set is in the view with the used value it had
C33_ReconciliationPreservesUsage ==
    last = Idle =>
    \A obj \in rp_objects, resources \in ResourceLists :
       \A existing_inventories \in ExistingInventories(DB, obj.uuid),
          order \in Permutations_of(Dropped(DB, obj.uuid, resources)) :
          LET res == ResourceProvider_save(DB, obj, {"resources"}, None, <<>>,
                                           resources, existing_inventories,
                                           order)
              before == ExistingResources(DB, obj.uuid).resources
              after == ExistingResources(Transaction(DB, res),
                                         obj.uuid).resources
          IN /\ res.db.alloc = allocations
             /\ res.err = None
                => \A c \in DOMAIN before \cap Classes(resources) :
                      /\ c \in DOMAIN after
                      /\ after[c].used = before[c].used

\* a save() has returned on a provider that holds two classes, one of them
\* with used > 0
C33_SavedInUse ==
    /\ last.op = "rp_save"
    /\ last.err = None
    /\ Cardinality(RowsOf(inventories, last.id)) = 2
    /\ \E i \in RowsOf(inventories, last.id) :
          UsedOf(allocations, last.id, i.resource_class_id) > 0

----------------------------------------------------------------------------
(* C34 *)

\* C34: a save() on a loaded object applies the fields the caller assigned
\* and nothing else; a lazy load marks nothing as changed.  When no field
\* was assigned, also after aggregates or resources were loaded, the
\* transaction runs no statement and no table changes; when only aggregates
\* were assigned, the provider rows (with their names) and the inventory
\* rows stay as they are; when only resources were assigned, the provider
\* rows and the aggregate associations stay as they are
C34_SaveWritesOnlyChanges ==
    [][ (last = Idle /\ last'.op = "rp_save") =>
        \A o \in loaded, n \in loaded' :
           /\ o.changed = o.assigned
           /\ o.assigned = {} => (n.statements = 0 /\ TablesUnchanged)
           /\ o.assigned = {"aggregates"}
              => /\ resource_providers' = resource_providers
                 /\ inventories' = inventories
           /\ o.assigned = {"resources"}
              => /\ resource_providers' = resource_providers
                 /\ resource_provider_aggregates'
                       = resource_provider_aggregates ]_vars

\* save() has returned on an object whose aggregates and resources were
\* loaded from storage, not empty, and never assigned
C34_LoadedThenSaved ==
    /\ last.op = "rp_save"
    /\ last.err = None
    /\ \E o \in loaded :
          /\ o.id = last.id
          /\ o.isset = {"aggregates", "resources"}
          /\ o.assigned = {}
          /\ o.aggregates # <<>>
          /\ o.resources # <<>>

----------------------------------------------------------------------------
(* C35 *)

\* in the tables `after` the provider is associated with the aggregates of
\* the list, one row each, and the associations of the other providers are
\* those of the tables `before`
AssociationsReplaced(before, after, rp_id, aggregates) ==
    /\ _get_aggregates(after, rp_id) = Range(aggregates)
    /\ Cardinality({ r \in after.rpa : r.resource_provider_id = rp_id })
          = Len(aggregates)
    /\ { r \in after.rpa : r.resource_provider_id # rp_id }
          = { r \in before.rpa : r.resource_provider_id # rp_id }

\* C35: an aggregate can be associated with any number of providers.  In
\* every state where a call can start, a create() for a new uuid that
\* stages a list of aggregates without a repeat (and resources without a
\* repeated class), and a save() of such a list, return whether or not the
\* aggregates are associated with other providers; afterwards the provider
\* is associated with exactly the listed aggregates and the associations of
\* the other providers are as they were.  DuplicateAssociation is raised
\* only for a list that names an aggregate twice
C35_SharedAggregate ==
    last = Idle =>
    /\ \A uuid \in Uuids, name \in Names, aggregates \in AggregateLists,
          resources \in StagedResourceLists :
          LET res == ResourceProvider_create(DB, NoId, uuid, name,
                         Staged(aggregates, resources), aggregates, resources)
          IN /\ res.err = "DuplicateAssociation" => Repeated(aggregates)
             /\ (/\ ~ \E p \in resource_providers : p.uuid = uuid
                 /\ ~ Repeated(aggregates)
                 /\ IsSet(resources))
                => /\ res.err = None
                   /\ AssociationsReplaced(DB, Transaction(DB, res),
                                           next_id.rp, aggregates)
    /\ \A obj \in rp_objects, aggregates \in AggregateLists :
          LET res == ResourceProvider_save(DB, obj, {"aggregates"}, None,
                                           aggregates, <<>>, <<>>, <<>>)
          IN /\ res.err = "DuplicateAssociation" <=> Repeated(aggregates)
             /\ ~ Repeated(aggregates)
                => /\ res.err = None
                   /\ AssociationsReplaced(DB, Transaction(DB, res), obj.id,
                                           aggregates)

\* a create() or a save() has returned that associated a provider with an
\* aggregate another stored provider is associated with
C35_Shared ==
    /\ last.op \in {"rp_create", "rp_save"}
    /\ last.err = None
    /\ \E p, q \in resource_providers :
          /\ p.id = last.id
          /\ q.id # p.id
          /\ AssociatedWith(resource_provider_aggregates, p.id)
               \cap AssociatedWith(resource_provider_aggregates, q.id) # {}

----------------------------------------------------------------------------
(* C36 *)

\* C36: when a destroy() has committed, no allocation row with used > 0
\* references the provider it deleted, whatever Allocation.create() calls
\* on the provider have committed before it or between its usage read and
\* its commit
C36_NoAllocationLeftByDestroy ==
    (last.op = "rp_destroy" /\ last.err = None)
    => ~ \E a \in allocations :
            a.resource_provider_id = last.id /\ a.used > 0

----------------------------------------------------------------------------
(* C37 *)

\* C37: in every state every inventory row and every allocation row
\* references a provider row that is stored
C37_ReferentialIntegrity ==
    /\ \A i \in inventories :
          \E p \in resource_providers : p.id = i.resource_provider_id
    /\ \A a \in allocations :
          \E p \in resource_providers : p.id = a.resource_provider_id

----------------------------------------------------------------------------
(* C38 *)

\* C38: a create() that raises leaves no object that carries an id: the
\* objects with an id are those there were before the call, so the object
\* the call was made on can be created again and cannot be the provider of
\* an Inventory or an Allocation
C38_NoIdAfterFailedCreate ==
    [][ (last'.op = "rp_create" /\ last'.err # None)
        => rp_objects' = rp_objects ]_vars

====
